---------------------------- MODULE Spec2Model ----------------------------
(***************************************************************************)
(* A model of the swisstable Map (src/map.go): a Swiss-table hash map with *)
(* 16-position groups, incremental growth (an immutable old table that is  *)
(* evacuated group by group on writes) and a Range iterator that walks     *)
(* snapshots of the old and the current table.                             *)
(*                                                                         *)
(* Go slices are references to backing arrays.  The backing arrays of the  *)
(* fixedTables and of the growStatus slices live in two heaps (tables,     *)
(* statuses) indexed by the allocation number, so that the aliasing        *)
(* between the Map and the snapshots taken by Range is the aliasing of the *)
(* Go program.  An array is a sequence; at(a, i) is the Go a[i].  A uint32 *)
(* bitmask is the ascending sequence of the positions of its 1 bits.       *)
(***************************************************************************)
EXTENDS Integers, Sequences, FiniteSets, TLC

(***************************************************************************)
(* Bounds of the model.                                                    *)
(***************************************************************************)
\* Fill keys are 0 .. MaxKey-1; they are inserted in ascending order.
MaxKey == 56
\* Number of overwrites/deletes of hot keys before Range plus the number of
\* Sets and Deletes the callback performs during Range.
MaxOps == 2
\* Number of fill keys a bulk Set of the callback inserts.
BulkLen == 16
\* The capacity hints New is called with are 0 .. MaxCapacity.
MaxCapacity == 53
\* The byte arrays MatchByte is called on have ArrayLen bytes; the buffers
\* are their slices [from : from + len] with from in 0 .. MaxFrom.
ArrayLen == 18
MaxFrom == 2
\* the largest h2Shift of the tables whose groups are walked and whose
\* hashes are reconstructed on their own: 16 * 2^MaxH2Shift positions
MaxH2Shift == 5

(***************************************************************************)
(* Program constants.                                                      *)
(***************************************************************************)
emptySentinel == 255
deletedSentinel == 128

NilRef == -1
NilKV == [nil |-> TRUE, Key |-> 0, Value |-> 0]
NilTable == [mem |-> NilRef, groupMask |-> 0, h2Shift |-> 0, deleteCount |-> 0]
NoArray == <<>>

(***************************************************************************)
(* Machine arithmetic on non-negative integers.                            *)
(***************************************************************************)
RECURSIVE BitAnd(_, _)
BitAnd(a, b) ==
    IF a = 0 \/ b = 0 THEN 0
    ELSE (a % 2) * (b % 2) + 2 * BitAnd(a \div 2, b \div 2)

RECURSIVE BitOr(_, _)
BitOr(a, b) ==
    IF a = 0 THEN b
    ELSE IF b = 0 THEN a
    ELSE (IF a % 2 = 1 \/ b % 2 = 1 THEN 1 ELSE 0) + 2 * BitOr(a \div 2, b \div 2)

\* a >> n and a << n on values that stay far below 2^31
ShiftRight(a, n) == a \div (2 ^ n)
ShiftLeft(a, n) == a * (2 ^ n)

\* bits.TrailingZeros32 of a bitmask: the position of its lowest 1 bit
TrailingZeros32(bitmask) == IF bitmask = <<>> THEN 32 ELSE Head(bitmask)

\* the bit positions of a uint32 that MatchByte can set
BitPositions == <<0, 1, 2, 3, 4, 5, 6, 7, 8, 9, 10, 11, 12, 13, 14, 15>>

\* a | b on bitmasks
maskOr(a, b) ==
    SelectSeq(BitPositions,
              LAMBDA i : (\E x \in 1 .. Len(a) : a[x] = i) \/ (\E y \in 1 .. Len(b) : b[y] = i))

\* bits.TrailingZeros(uint(x)) for x that fits the model's integers
RECURSIVE TrailingZeros(_)
TrailingZeros(x) ==
    IF x = 0 THEN 64
    ELSE IF x % 2 = 1 THEN 0
    ELSE 1 + TrailingZeros(x \div 2)

(***************************************************************************)
(* Slices.                                                                 *)
(***************************************************************************)
\* a[i]
at(a, i) == a[i + 1]

\* make([]T, n) filled with x
RECURSIVE makeArray(_, _)
makeArray(n, x) ==
    IF n = 0 THEN <<>>
    ELSE IF n % 2 = 1 THEN Append(makeArray(n - 1, x), x)
    ELSE LET half == makeArray(n \div 2, x) IN half \o half

\* a[from:], a slice header: the array, the start and the length
Slice(a, from) == [base |-> a, from |-> from, len |-> Len(a) - from]

(***************************************************************************)
(* MatchByte (match_amd64.s): compare the first 16 bytes of buffer with c  *)
(* and collapse the result to a bitmask (PCMPEQB, PMOVMSKB).               *)
(***************************************************************************)
\* a MatchByte that wants more than 16 bytes (JG for JGE)
MatchByteLonger(c, buffer) ==
    IF buffer.len <= 16
    THEN [mask |-> <<>>, ok |-> FALSE]
    ELSE LET base == buffer.base
             from == buffer.from + 1
         IN [mask |-> SelectSeq(BitPositions, LAMBDA i : base[from + i] = c),
             ok |-> TRUE]

MatchByte(c, buffer) ==
    IF buffer.len < 16
    THEN [mask |-> <<>>, ok |-> FALSE]
    ELSE LET base == buffer.base
             from == buffer.from + 1
         IN [mask |-> SelectSeq(BitPositions, LAMBDA i : base[from + i] = c),
             ok |-> TRUE]

matchEmpty(controlBytes) == MatchByte(emptySentinel, controlBytes).mask

matchEmptyOrDeleted(controlBytes) ==
    maskOr(MatchByte(emptySentinel, controlBytes).mask,
           MatchByte(deletedSentinel, controlBytes).mask)

(***************************************************************************)
(* Control bytes and growth status bytes.                                  *)
(***************************************************************************)
isStored(controlByte) == BitAnd(controlByte, 128) = 0

isEvacuated(statusByte) == BitAnd(statusByte, 1) # 0
setEvacuated(statusByte) == BitOr(statusByte, 1)
isChainEvacuated(statusByte) == BitAnd(statusByte, 2) # 0
setChainEvacuated(statusByte) == BitOr(statusByte, 2)
curHasDisplaced(statusByte) == BitAnd(statusByte, 4) # 0
setCurHasDisplaced(statusByte) == BitOr(statusByte, 4)

zeroValue == 0
zeroKV == [nil |-> FALSE, Key |-> 0, Value |-> 0]
KV(k, v) == [nil |-> FALSE, Key |-> k, Value |-> v]

(***************************************************************************)
(* Hash functions (map_test.go): the tests replace Map.hashFunc by the     *)
(* identity hash or by the constant-zero hash.                             *)
(***************************************************************************)
identityHash(k, seed) == k
zeroHash(k, seed) == 0

\* m.hashFunc(k, m.seed)
hashFunc(m, k) ==
    IF m.hashFunc = "zeroHash" THEN zeroHash(k, m.seed) ELSE identityHash(k, m.seed)

(***************************************************************************)
(* fixedTable.                                                             *)
(***************************************************************************)
\* a loop that stops at the power of two below tableSize
RECURSIVE roundDownPow2(_, _)
roundDownPow2(tableSize, pow2) ==
    IF tableSize >= ShiftLeft(pow2, 1)
    THEN roundDownPow2(tableSize, ShiftLeft(pow2, 1))
    ELSE pow2

\* the loop "for tableSize > pow2 { pow2 = pow2 << 1 }"
RECURSIVE roundUpPow2(_, _)
roundUpPow2(tableSize, pow2) ==
    IF tableSize > pow2 THEN roundUpPow2(tableSize, ShiftLeft(pow2, 1)) ELSE pow2

\* a calcTableSize that takes the hint for the number of positions
calcTableSizeNoLoad(capacityHint) == roundUpPow2(capacityHint, 16)

calcTableSize(capacityHint) ==
    \* int(float64(capacityHint) / (6.5 / 8)): 6.5/8 = 13/16 is exact in
    \* binary floating point, and the truncated quotient is floor(c*16/13)
    roundUpPow2((capacityHint * 16) \div 13, 16)

\* the backing arrays newFixedTable allocates
newArrays(tableSize) ==
    [control |-> makeArray(tableSize, emptySentinel),
     slots |-> makeArray(tableSize, zeroKV)]

\* the fixedTable struct newFixedTable returns, its arrays being at address mem
newFixedTable(tableSize, mem) ==
    [mem |-> mem,
     groupMask |-> (tableSize \div 16) - 1,
     h2Shift |-> TrailingZeros(tableSize \div 16),
     deleteCount |-> 0]

\* an h2 of the 7 lowest bits of the hash
h2LowBits(t, h) == BitAnd(h, 127)

h2(t, h) == BitAnd(ShiftRight(h, t.h2Shift), 127)

reconstructHash(t, controlByte, group) ==
    BitOr(group, ShiftLeft(BitAnd(controlByte, 127), t.h2Shift))

(***************************************************************************)
(* The world an operation runs in: the Map struct and the two heaps.       *)
(* hung records that a probe loop visited every group without terminating  *)
(* (with debug = false the Go loop would spin forever).  obs counts what    *)
(* the evacuation has done: moves, the calls of moveGroup since the last   *)
(* startResize; oldGroups, the number of groups of the table that          *)
(* startResize made old; hits, the keys moveGroup reinserted that current  *)
(* already held; late, the Sets and Deletes that went on to current before *)
(* the old groups of their key were evacuated; displaced, the Sets and     *)
(* Deletes that were called for a key that old held outside its natural    *)
(* group, in a group not yet evacuated; abandoned, the groups of old that  *)
(* were not evacuated when old was dropped; nested, the calls of           *)
(* startResize made while the Map had an old table; growOps, the Sets and  *)
(* Deletes called since the last startResize, the Set that called it       *)
(* included; idle, those of them that moved no group and left the Map      *)
(* growing; credit, the value of allowedMoves when the last call of        *)
(* moveGroups came to its sweep; opMoves, the calls of moveGroup that call *)
(* of moveGroups made; over, the calls of moveGroups that made more than   *)
(* three, or more in the sweep than the credits it came with, or came to   *)
(* the sweep with fewer than -1 credits.                                   *)
(***************************************************************************)
NoObs == [moves |-> 0, oldGroups |-> 0, hits |-> 0, late |-> 0, displaced |-> 0,
          abandoned |-> 0, nested |-> 0, growOps |-> 0, idle |-> 0,
          credit |-> 2, opMoves |-> 0, over |-> 0]

control(w, t) == w.tables[t.mem].control
slots(w, t) == w.tables[t.mem].slots
status(w) == w.statuses[w.m.growStatus]

\* a New whose Map resizes only when every position of the table is taken
NewFullLoad(capacity, hf, seed) ==
    LET tableSize == calcTableSize(capacity) IN
    [m |-> [current |-> newFixedTable(tableSize, 0),
            old |-> NilTable,
            growStatus |-> NilRef,
            sweepCursor |-> 0,
            elemCount |-> 0,
            resizeThreshold |-> tableSize,
            disableResizing |-> FALSE,
            hashFunc |-> hf,
            seed |-> seed,
            resizeGenerations |-> 0],
     tables |-> [a \in {0} |-> newArrays(tableSize)],
     statuses |-> [a \in {0} |-> <<>>],
     hung |-> FALSE,
     obs |-> NoObs]

New(capacity, hf, seed) ==
    LET tableSize == calcTableSize(capacity) IN
    [m |-> [current |-> newFixedTable(tableSize, 0),
            old |-> NilTable,
            growStatus |-> NilRef,
            sweepCursor |-> 0,
            elemCount |-> 0,
            resizeThreshold |-> (tableSize * 13) \div 16,
            disableResizing |-> FALSE,
            hashFunc |-> hf,
            seed |-> seed,
            resizeGenerations |-> 0],
     tables |-> [a \in {0} |-> newArrays(tableSize)],
     statuses |-> [a \in {0} |-> <<>>],
     hung |-> FALSE,
     obs |-> NoObs]

(***************************************************************************)
(* find                                                                    *)
(***************************************************************************)
\* the inner loop over the h2 hits of one group ("for bitmask != 0"), from
\* the lowest bit up: it returns at the first hit whose key is k; offset is
\* the named result, which keeps the last hit looked at
matchKey(slts, pos, k, bitmask, offset) ==
    LET hits == SelectSeq(bitmask, LAMBDA off : slts[pos + off + 1].Key = k) IN
    IF hits # <<>> THEN [hit |-> TRUE, offset |-> TrailingZeros32(hits)]
    ELSE IF bitmask = <<>> THEN [hit |-> FALSE, offset |-> offset]
    ELSE [hit |-> FALSE, offset |-> bitmask[Len(bitmask)]]

RECURSIVE findProbe(_, _, _, _, _, _, _)

\* find after the h2 hits of the group have been compared (r): the key is
\* found, or the group has an EMPTY byte, or the probing goes on
findNext(w, t, k, h2v, group, probeCount, r) ==
    IF r.hit
    THEN [kv |-> at(slots(w, t), group * 16 + r.offset), group |-> group,
          offset |-> r.offset, hung |-> FALSE]
    ELSE IF MatchByte(emptySentinel, Slice(control(w, t), group * 16)).mask # <<>>
    THEN [kv |-> NilKV, group |-> group, offset |-> r.offset, hung |-> FALSE]
    ELSE IF probeCount + 1 >= Len(slots(w, t)) \div 16
    THEN [kv |-> NilKV, group |-> group, offset |-> r.offset, hung |-> TRUE]
    ELSE findProbe(w, t, k, h2v,
                   BitAnd(group + probeCount + 1, t.groupMask),
                   r.offset, probeCount + 1)

\* one iteration of the probing loop of find
findProbe(w, t, k, h2v, group, offset, probeCount) ==
    findNext(w, t, k, h2v, group, probeCount,
             matchKey(slots(w, t), group * 16, k,
                      MatchByte(h2v, Slice(control(w, t), group * 16)).mask,
                      offset))

find(w, t, k, h) == findProbe(w, t, k, h2(t, h), BitAnd(h, t.groupMask), 0, 0)

(***************************************************************************)
(* Get                                                                     *)
(***************************************************************************)
Result(kv, hung) ==
    IF kv.nil THEN [v |-> zeroValue, ok |-> FALSE, hung |-> hung]
    ELSE [v |-> kv.Value, ok |-> TRUE, hung |-> hung]

\* Get returns what find found
getFound(f) == Result(f.kv, f.hung)

\* Get while growing, the natural group evacuated, the key not in current:
\* o is what find found in old
getOld(w, oldNatGroup, f, o) ==
    IF oldNatGroup = o.group THEN Result(NilKV, f.hung \/ o.hung)
    ELSE IF ~o.kv.nil /\ ~isEvacuated(at(status(w), o.group))
    THEN Result(o.kv, f.hung \/ o.hung)
    ELSE Result(NilKV, f.hung \/ o.hung)

\* Get while growing, the chain of the natural group not evacuated: f is
\* what find found in the first table looked at
getGrowing(w, k, h, oldNatGroup, oldNatGroupEvac, f) ==
    IF ~f.kv.nil THEN Result(f.kv, f.hung)
    ELSE IF ~oldNatGroupEvac THEN Result(NilKV, f.hung)
    ELSE getOld(w, oldNatGroup, f, find(w, w.m.old, k, h))

\* a Get that never looks into old
GetCurrentOnly(w, k) == getFound(find(w, w.m.current, k, hashFunc(w.m, k)))

Get(w, k) ==
    LET m == w.m
        h == hashFunc(m, k)
    IN IF m.old = NilTable \/ isChainEvacuated(at(status(w), BitAnd(h, m.old.groupMask)))
       THEN getFound(find(w, m.current, k, h))
       ELSE
         LET oldNatGroup == BitAnd(h, m.old.groupMask)
             oldNatGroupEvac == isEvacuated(at(status(w), oldNatGroup))
         IN getGrowing(w, k, h, oldNatGroup, oldNatGroupEvac,
                       find(w, IF ~oldNatGroupEvac THEN m.old ELSE m.current, k, h))

MapLen(w) == w.m.elemCount

(***************************************************************************)
(* Set, startResize and the evacuation of old (moveGroups, moveChain,      *)
(* moveGroup).  Each operator takes the world and returns the world the Go *)
(* function leaves behind.                                                 *)
(***************************************************************************)
setControl(w, t, pos, b) ==
    [w EXCEPT !.tables[t.mem].control[pos + 1] = b]

setSlot(w, t, pos, kv) ==
    [w EXCEPT !.tables[t.mem].slots[pos + 1] = kv]

setStatus(w, g, b) ==
    [w EXCEPT !.statuses[w.m.growStatus][g + 1] = b]

\* a startResize that makes the new table four times the size of the old
startResizeQuad(w) ==
    LET m == w.m
        newTableSize == ShiftLeft(Len(control(w, m.current)), 2)
        mem == m.resizeGenerations + 1
    IN [w EXCEPT
          !.m = [m EXCEPT !.resizeThreshold = ShiftLeft(m.resizeThreshold, 1),
                          !.old = m.current,
                          !.current = newFixedTable(newTableSize, mem),
                          !.growStatus = mem,
                          !.sweepCursor = 0,
                          !.resizeGenerations = m.resizeGenerations + 1],
          !.tables = [a \in 0 .. mem |->
                         IF a = mem THEN newArrays(newTableSize) ELSE w.tables[a]],
          !.statuses = [a \in 0 .. mem |->
                         IF a = mem
                         THEN makeArray(Len(control(w, m.current)), 0)
                         ELSE w.statuses[a]],
          !.obs = [w.obs EXCEPT !.moves = 0,
                                !.oldGroups = Len(control(w, m.current)) \div 16,
                                !.nested = IF m.old # NilTable THEN @ + 1 ELSE @,
                                !.growOps = 0]]

\* a startResize that does not zero growStatus
startResizeMarked(w) ==
    LET m == w.m
        newTableSize == ShiftLeft(Len(control(w, m.current)), 1)
        mem == m.resizeGenerations + 1
    IN [w EXCEPT
          !.m = [m EXCEPT !.resizeThreshold = ShiftLeft(m.resizeThreshold, 1),
                          !.old = m.current,
                          !.current = newFixedTable(newTableSize, mem),
                          !.growStatus = mem,
                          !.sweepCursor = 0,
                          !.resizeGenerations = m.resizeGenerations + 1],
          !.tables = [a \in 0 .. mem |->
                         IF a = mem THEN newArrays(newTableSize) ELSE w.tables[a]],
          !.statuses = [a \in 0 .. mem |->
                         IF a = mem
                         THEN makeArray(Len(control(w, m.current)), 1)
                         ELSE w.statuses[a]],
          !.obs = [w.obs EXCEPT !.moves = 0,
                                !.oldGroups = Len(control(w, m.current)) \div 16,
                                !.nested = IF m.old # NilTable THEN @ + 1 ELSE @,
                                !.growOps = 0]]

startResize(w) ==
    LET m == w.m
        newTableSize == ShiftLeft(Len(control(w, m.current)), 1)
        mem == m.resizeGenerations + 1
    IN [w EXCEPT
          !.m = [m EXCEPT !.resizeThreshold = ShiftLeft(m.resizeThreshold, 1),
                          !.old = m.current,
                          !.current = newFixedTable(newTableSize, mem),
                          !.growStatus = mem,
                          !.sweepCursor = 0,
                          !.resizeGenerations = m.resizeGenerations + 1],
          !.tables = [a \in 0 .. mem |->
                         IF a = mem THEN newArrays(newTableSize) ELSE w.tables[a]],
          !.statuses = [a \in 0 .. mem |->
                         IF a = mem
                         THEN makeArray(Len(control(w, m.current)), 0)
                         ELSE w.statuses[a]],
          !.obs = [w.obs EXCEPT !.moves = 0,
                                !.oldGroups = Len(control(w, m.current)) \div 16,
                                !.nested = IF m.old # NilTable THEN @ + 1 ELSE @,
                                !.growOps = 0]]

RECURSIVE findFirstEmptyOrDeletedProbe(_, _, _, _)
\* a findFirstEmptyOrDeleted that goes past DELETED bytes
findFirstEmptyProbe(w, t, group, probeCount) ==
    LET bitmask == matchEmpty(Slice(control(w, t), group * 16)) IN
    IF bitmask # <<>>
    THEN [group |-> group, offset |-> TrailingZeros32(bitmask), hung |-> FALSE]
    ELSE IF probeCount + 1 >= Len(slots(w, t)) \div 16
    THEN [group |-> group, offset |-> 0, hung |-> TRUE]
    ELSE findFirstEmptyOrDeletedProbe(w, t,
             BitAnd(group + probeCount + 1, t.groupMask), probeCount + 1)

findFirstEmptyOrDeletedProbe(w, t, group, probeCount) ==
    LET bitmask == matchEmptyOrDeleted(Slice(control(w, t), group * 16)) IN
    IF bitmask # <<>>
    THEN [group |-> group, offset |-> TrailingZeros32(bitmask), hung |-> FALSE]
    ELSE IF probeCount + 1 >= Len(slots(w, t)) \div 16
    THEN [group |-> group, offset |-> 0, hung |-> TRUE]
    ELSE findFirstEmptyOrDeletedProbe(w, t,
             BitAnd(group + probeCount + 1, t.groupMask), probeCount + 1)

findFirstEmptyOrDeleted(w, t, h) ==
    findFirstEmptyOrDeletedProbe(w, t, BitAnd(h, t.groupMask), 0)

\* a store that counts every write as a new element, the moves of the
\* evacuation included
storeCounted(w, cur, pos, h2v, kv, elemIncr) ==
    LET dc == IF at(control(w, cur), pos) = deletedSentinel
              THEN cur.deleteCount - 1
              ELSE cur.deleteCount
    IN setSlot(setControl([w EXCEPT !.m.current.deleteCount = dc,
                                    !.m.elemCount = w.m.elemCount + 1],
                          cur, pos, h2v),
               cur, pos, kv)

\* a store that leaves deleteCount as it is
storeKeepCount(w, cur, pos, h2v, kv, elemIncr) ==
    setSlot(setControl([w EXCEPT !.m.elemCount = w.m.elemCount + elemIncr],
                       cur, pos, h2v),
            cur, pos, kv)

\* set writes a new element at pos: the control byte, the slot, the counts
store(w, cur, pos, h2v, kv, elemIncr) ==
    LET dc == IF at(control(w, cur), pos) = deletedSentinel
              THEN cur.deleteCount - 1
              ELSE cur.deleteCount
    IN setSlot(setControl([w EXCEPT !.m.current.deleteCount = dc,
                                    !.m.elemCount = w.m.elemCount + elemIncr],
                          cur, pos, h2v),
               cur, pos, kv)

\* a Delete that always leaves an EMPTY byte
eraseEmpty(w, cur, pos, sentinel, dc) ==
    setSlot(setControl([w EXCEPT !.m.elemCount = w.m.elemCount - 1],
                       cur, pos, emptySentinel),
            cur, pos, zeroKV)

\* Delete removes the element at pos: the sentinel, the slot, the counts
erase(w, cur, pos, sentinel, dc) ==
    setSlot(setControl([w EXCEPT !.m.current.deleteCount = dc,
                                 !.m.elemCount = w.m.elemCount - 1],
                       cur, pos, sentinel),
            cur, pos, zeroKV)

\* a set that does not track the displaced elements
trackDisplacedNever(w, group, probeCount) == w

\* "Track if we have any displaced elements in current while growing."
trackDisplaced(w, group, probeCount) ==
    IF w.m.old # NilTable /\ probeCount # 0
    THEN LET oldGroup == BitAnd(group, w.m.old.groupMask) IN
         setStatus(w, oldGroup, setCurHasDisplaced(at(status(w), oldGroup)))
    ELSE w

\* the groups of table t that hold key k in a STORED position
storedGroups(w, t, k) ==
    {g \in 0 .. t.groupMask :
        \E offset \in 0 .. 15 :
            /\ isStored(at(control(w, t), g * 16 + offset))
            /\ at(slots(w, t), g * 16 + offset).Key = k}

\* moveGroup is called
noteMove(w) == [w EXCEPT !.obs.moves = @ + 1]

\* moveGroup reinserts key k: "we know key is not present in current yet"
noteReinsert(w, k) ==
    IF find(w, w.m.current, k, hashFunc(w.m, k)).kv.nil THEN w
    ELSE [w EXCEPT !.obs.hits = @ + 1]

\* Set or Delete of key k, called in world w0, goes on to current after
\* its call of moveGroups, which left world w
noteWrite(w0, w, k, h) ==
    LET oldNatGroup == BitAnd(h, w0.m.old.groupMask)
        displaced == \E g \in storedGroups(w0, w0.m.old, k) :
                        g # oldNatGroup /\ ~isEvacuated(at(status(w0), g))
        moved == \/ w.m.old = NilTable
                 \/ /\ isEvacuated(at(status(w), oldNatGroup))
                    /\ \A g \in storedGroups(w, w.m.old, k) :
                          isEvacuated(at(status(w), g))
    IN IF w.hung THEN w
       ELSE [w EXCEPT !.obs.late = IF moved THEN @ ELSE @ + 1,
                      !.obs.displaced = IF displaced THEN @ + 1 ELSE @,
                      !.obs.growOps = @ + 1,
                      !.obs.opMoves = w.obs.moves - w0.obs.moves,
                      !.obs.over =
                          IF \/ w.obs.moves - w0.obs.moves > 3
                             \/ w.obs.credit < -1
                             \/ w.obs.moves - w0.obs.moves
                                   > (IF w.obs.credit < 0 THEN 2 - w.obs.credit ELSE 2)
                          THEN @ + 1 ELSE @,
                      !.obs.idle = IF w.m.old # NilTable /\ w.obs.moves = w0.obs.moves
                                   THEN @ + 1 ELSE @]

RECURSIVE set(_, _, _, _, _)
RECURSIVE setProbe(_, _, _, _, _, _, _, _)
RECURSIVE moveGroups(_, _, _, _)
RECURSIVE sweep(_, _, _)
RECURSIVE moveChain(_, _, _, _)
RECURSIVE moveChainLoop(_, _, _, _, _)
RECURSIVE moveGroup(_, _)
RECURSIVE moveGroupLoop(_, _, _, _)

\* a set that never evacuates the old group of the key before it writes
setNoMove(w, k, v, elemIncr, moveIfNeeded) ==
    LET h == hashFunc(w.m, k)
        group == BitAnd(h, w.m.current.groupMask)
    IN setProbe(w, k, v, elemIncr, h, h2(w.m.current, h), group, 0)

\* a set that tests the load before it has looked for the key
setLoadFirst(w, k, v, elemIncr, moveIfNeeded) ==
    LET h == hashFunc(w.m, k)
        group == BitAnd(h, w.m.current.groupMask)
        h2v == h2(w.m.current, h)
    IN IF /\ moveIfNeeded
          /\ w.m.old = NilTable
          /\ w.m.elemCount + w.m.current.deleteCount >= w.m.resizeThreshold
       THEN set(startResize(w), k, v, 1, TRUE)
       ELSE setProbe(IF moveIfNeeded /\ w.m.old # NilTable
                     THEN noteWrite(w, moveGroups(w, group, k, h), k, h)
                     ELSE w,
                     k, v, elemIncr, h, h2v, group, 0)

set(w, k, v, elemIncr, moveIfNeeded) ==
    LET h == hashFunc(w.m, k)
        group == BitAnd(h, w.m.current.groupMask)
        h2v == h2(w.m.current, h)
    IN setProbe(IF moveIfNeeded /\ w.m.old # NilTable
                THEN noteWrite(w, moveGroups(w, group, k, h), k, h)
                ELSE w,
                k, v, elemIncr, h, h2v, group, 0)

\* a probing loop of set that resizes only when the load is past the
\* threshold
setProbeLate(w, k, v, elemIncr, h, h2v, group, probeCount) ==
    IF w.hung THEN w
    ELSE
    LET cur == w.m.current
        bm == MatchByte(h2v, Slice(control(w, cur), group * 16))
        r == matchKey(slots(w, cur), group * 16, k, bm.mask, 0)
    IN IF r.hit
       THEN \* update the existing key
            LET pos == group * 16 + r.offset
                w1 == setSlot(setControl(w, cur, pos, h2v), cur, pos, KV(k, v))
            IN trackDisplaced(w1, group, probeCount)
       ELSE
         LET emptyBitmask == matchEmpty(Slice(control(w, cur), group * 16)) IN
         IF emptyBitmask # <<>>
         THEN IF w.m.elemCount + cur.deleteCount > w.m.resizeThreshold
                 /\ ~w.m.disableResizing
              THEN set(startResize(w), k, v, 1, TRUE)
              ELSE
                LET loc == IF cur.deleteCount = 0 \/ probeCount = 0
                           THEN [group |-> group,
                                 offset |-> TrailingZeros32(emptyBitmask),
                                 hung |-> FALSE]
                           ELSE findFirstEmptyOrDeleted(w, cur, h)
                IN IF loc.hung THEN [w EXCEPT !.hung = TRUE]
                   ELSE trackDisplaced(store(w, cur, loc.group * 16 + loc.offset,
                                             h2v, KV(k, v), elemIncr),
                                       loc.group, probeCount)
         ELSE IF probeCount + 1 >= Len(slots(w, cur)) \div 16
         THEN [w EXCEPT !.hung = TRUE]
         ELSE setProbe(w, k, v, elemIncr, h, h2v,
                       BitAnd(group + probeCount + 1, cur.groupMask),
                       probeCount + 1)

\* one iteration of the probing loop of set
setProbe(w, k, v, elemIncr, h, h2v, group, probeCount) ==
    IF w.hung THEN w
    ELSE
    LET cur == w.m.current
        bm == MatchByte(h2v, Slice(control(w, cur), group * 16))
        r == matchKey(slots(w, cur), group * 16, k, bm.mask, 0)
    IN IF r.hit
       THEN \* update the existing key
            LET pos == group * 16 + r.offset
                w1 == setSlot(setControl(w, cur, pos, h2v), cur, pos, KV(k, v))
            IN trackDisplaced(w1, group, probeCount)
       ELSE
         LET emptyBitmask == matchEmpty(Slice(control(w, cur), group * 16)) IN
         IF emptyBitmask # <<>>
         THEN IF w.m.elemCount + cur.deleteCount >= w.m.resizeThreshold
                 /\ ~w.m.disableResizing
              THEN set(startResize(w), k, v, 1, TRUE)
              ELSE
                LET loc == IF cur.deleteCount = 0 \/ probeCount = 0
                           THEN [group |-> group,
                                 offset |-> TrailingZeros32(emptyBitmask),
                                 hung |-> FALSE]
                           ELSE findFirstEmptyOrDeleted(w, cur, h)
                IN IF loc.hung THEN [w EXCEPT !.hung = TRUE]
                   ELSE trackDisplaced(store(w, cur, loc.group * 16 + loc.offset,
                                             h2v, KV(k, v), elemIncr),
                                       loc.group, probeCount)
         ELSE IF probeCount + 1 >= Len(slots(w, cur)) \div 16
         THEN [w EXCEPT !.hung = TRUE]
         ELSE setProbe(w, k, v, elemIncr, h, h2v,
                       BitAnd(group + probeCount + 1, cur.groupMask),
                       probeCount + 1)

\* a loop of moveGroup that stops half way through the group
moveGroupLoopHalf(w, group, ctl, offset) ==
    IF offset >= 8 \/ w.hung THEN w
    ELSE IF isStored(at(ctl, offset))
    THEN LET kv == at(slots(w, w.m.old), group * 16 + offset) IN
         moveGroupLoop(set(noteReinsert(w, kv.Key), kv.Key, kv.Value, 0, FALSE),
                       group, ctl, offset + 1)
    ELSE moveGroupLoop(w, group, ctl, offset + 1)

\* the loop of moveGroup over the 16 control bytes of the old group; ctl is
\* the slice the range statement evaluated when the loop started
moveGroupLoop(w, group, ctl, offset) ==
    IF offset = 16 \/ w.hung THEN w
    ELSE IF isStored(at(ctl, offset))
    THEN LET kv == at(slots(w, w.m.old), group * 16 + offset) IN
         moveGroupLoop(set(noteReinsert(w, kv.Key), kv.Key, kv.Value, 0, FALSE),
                       group, ctl, offset + 1)
    ELSE moveGroupLoop(w, group, ctl, offset + 1)

\* an end of moveGroup that also clears the slots of the group it moved
markEvacuatedClear(w, group) ==
    IF w.hung THEN w
    ELSE LET slts == slots(w, w.m.old)
             w1 == [w EXCEPT !.tables[w.m.old.mem].slots =
                        [i \in 1 .. Len(slts) |->
                            IF (i - 1) \div 16 = group THEN zeroKV ELSE slts[i]]]
             w2 == setStatus(w1, group, setEvacuated(at(status(w1), group)))
         IN IF matchEmpty(Slice(control(w2, w2.m.old), group * 16)) # <<>>
            THEN setStatus(w2, group, setChainEvacuated(at(status(w2), group)))
            ELSE w2

\* the end of moveGroup: mark the group, and its chain if the group has an
\* EMPTY byte
markEvacuated(w, group) ==
    IF w.hung THEN w
    ELSE LET w2 == setStatus(w, group, setEvacuated(at(status(w), group))) IN
         IF matchEmpty(Slice(control(w2, w2.m.old), group * 16)) # <<>>
         THEN setStatus(w2, group, setChainEvacuated(at(status(w2), group)))
         ELSE w2

moveGroup(w, group) ==
    markEvacuated(moveGroupLoop(noteMove(w), group,
                                SubSeq(control(w, w.m.old), group * 16 + 1, group * 16 + 16),
                                0),
                  group)

\* a step of moveChain that takes the first group it looked at for the end
\* of the chain
moveChainNextEarly(w, oldNatGroup, g, probeCount, allowedMoves) ==
    IF w.hung
    THEN [w |-> w, allowedMoves |-> allowedMoves, chainEnd |-> FALSE]
    ELSE [w |-> setStatus(w, oldNatGroup,
                          setChainEvacuated(at(status(w), oldNatGroup))),
          allowedMoves |-> allowedMoves, chainEnd |-> TRUE]

\* moveChain after it has looked at group g: the chain ends at a group with
\* an EMPTY byte, else the walk goes on
moveChainNext(w, oldNatGroup, g, probeCount, allowedMoves) ==
    IF w.hung
    THEN [w |-> w, allowedMoves |-> allowedMoves, chainEnd |-> FALSE]
    ELSE IF matchEmpty(Slice(control(w, w.m.old), g * 16)) # <<>>
    THEN [w |-> setStatus(w, oldNatGroup,
                          setChainEvacuated(at(status(w), oldNatGroup))),
          allowedMoves |-> allowedMoves, chainEnd |-> TRUE]
    ELSE IF probeCount + 1 > 2 * (w.m.old.groupMask + 1)
    THEN \* an old table without any EMPTY byte: the walk never ends
         [w |-> [w EXCEPT !.hung = TRUE], allowedMoves |-> allowedMoves,
          chainEnd |-> FALSE]
    ELSE moveChainLoop(w, oldNatGroup,
                       BitAnd(g + probeCount + 1, w.m.old.groupMask),
                       probeCount + 1, allowedMoves)

\* a loop of moveChain that moves the group it visits whether or not the
\* group has been moved before
moveChainLoopAgain(w, oldNatGroup, g, probeCount, allowedMoves) ==
    IF w.hung THEN [w |-> w, allowedMoves |-> allowedMoves, chainEnd |-> FALSE]
    ELSE IF allowedMoves > 0
    THEN moveChainNext(moveGroup(w, g), oldNatGroup, g, probeCount, allowedMoves - 1)
    ELSE [w |-> w, allowedMoves |-> allowedMoves, chainEnd |-> FALSE]

\* a loop of moveChain that moves groups without credits
moveChainLoopFree(w, oldNatGroup, g, probeCount, allowedMoves) ==
    IF w.hung THEN [w |-> w, allowedMoves |-> allowedMoves, chainEnd |-> FALSE]
    ELSE IF ~isEvacuated(at(status(w), g))
    THEN moveChainNext(moveGroup(w, g), oldNatGroup, g, probeCount,
                       allowedMoves - 1)
    ELSE moveChainNext(w, oldNatGroup, g, probeCount, allowedMoves)

\* the loop of moveChain; g is the group being visited
moveChainLoop(w, oldNatGroup, g, probeCount, allowedMoves) ==
    IF w.hung THEN [w |-> w, allowedMoves |-> allowedMoves, chainEnd |-> FALSE]
    ELSE IF allowedMoves > 0
    THEN IF ~isEvacuated(at(status(w), g))
         THEN moveChainNext(moveGroup(w, g), oldNatGroup, g, probeCount,
                            allowedMoves - 1)
         ELSE moveChainNext(w, oldNatGroup, g, probeCount, allowedMoves)
    ELSE [w |-> w, allowedMoves |-> allowedMoves, chainEnd |-> FALSE]

moveChain(w, oldNatGroup, probeCount, allowedMoves) ==
    moveChainLoop(w, oldNatGroup,
                  BitAnd(oldNatGroup + probeCount, w.m.old.groupMask),
                  probeCount, allowedMoves)

\* a sweep loop that advances the cursor past every group it looked at
sweepNextAlways(mc, stopCursor) ==
    IF mc.w.hung THEN mc.w
    ELSE sweep([mc.w EXCEPT !.m.sweepCursor = mc.w.m.sweepCursor + 1],
               stopCursor, mc.allowedMoves)

\* the sweep loop after its call of moveChain (mc)
sweepNext(mc, stopCursor) ==
    IF mc.w.hung THEN mc.w
    ELSE IF isChainEvacuated(at(status(mc.w), mc.w.m.sweepCursor))
    THEN sweep([mc.w EXCEPT !.m.sweepCursor = mc.w.m.sweepCursor + 1],
               stopCursor, mc.allowedMoves)
    ELSE IF mc.allowedMoves <= 0 THEN mc.w
    ELSE sweep(mc.w, stopCursor, mc.allowedMoves)

\* a moveGroups without the sweep
sweepNone(w, stopCursor, allowedMoves) == w

\* the sweep loop of moveGroups ("for m.sweepCursor < stopCursor")
sweep(w, stopCursor, allowedMoves) ==
    IF w.hung \/ ~(w.m.sweepCursor < stopCursor) THEN w
    ELSE sweepNext(IF ~isChainEvacuated(at(status(w), w.m.sweepCursor))
                   THEN moveChain(w, w.m.sweepCursor, 0, allowedMoves)
                   ELSE [w |-> w, allowedMoves |-> allowedMoves, chainEnd |-> FALSE],
                   stopCursor)

\* an end of moveGroups that leaves sweepCursor where the sweep ended
doneGrowingKeepCursor(w) ==
    IF w.hung THEN w
    ELSE IF w.m.sweepCursor >= Len(control(w, w.m.old)) \div 16
    THEN [w EXCEPT !.m.old = NilTable, !.m.growStatus = NilRef]
    ELSE w

\* an end of moveGroups that keeps old and growStatus for good
doneGrowingNever(w) == w

\* "Done growing!": the end of moveGroups
doneGrowing(w) ==
    IF w.hung THEN w
    ELSE IF w.m.sweepCursor >= Len(control(w, w.m.old)) \div 16
    THEN [w EXCEPT !.m.old = NilTable,
                   !.m.growStatus = NilRef,
                   !.m.sweepCursor = 0,
                   !.obs.abandoned =
                       @ + Cardinality({g \in 0 .. w.m.old.groupMask :
                                           ~isEvacuated(at(status(w), g))})]
    ELSE w

\* moveGroups from the sweep on; s holds the Map and allowedMoves
sweepGroups(s) ==
    LET groups == Len(control(s.w, s.w.m.old)) \div 16
        stopCursor == IF groups > s.w.m.sweepCursor + 1000
                      THEN s.w.m.sweepCursor + 1000
                      ELSE groups
    IN doneGrowing(IF s.w.hung THEN s.w
                   ELSE sweep([s.w EXCEPT !.obs.credit = s.allowedMoves],
                              stopCursor, s.allowedMoves))

\* moveGroups after moveChain (mc) has walked the chain of the natural
\* group: if the chain is not at its end, move the group that holds k
moveDisplaced(mc, oldNatGroup, k, h) ==
    IF ~mc.chainEnd /\ ~mc.w.hung
    THEN LET f == find(mc.w, mc.w.m.old, k, h) IN
         IF ~f.kv.nil /\ f.group # oldNatGroup
               /\ ~isEvacuated(at(status(mc.w), f.group))
         THEN [w |-> moveGroup(mc.w, f.group), allowedMoves |-> mc.allowedMoves - 1]
         ELSE [w |-> mc.w, allowedMoves |-> mc.allowedMoves]
    ELSE [w |-> mc.w, allowedMoves |-> mc.allowedMoves]

\* moveGroups after the natural group has been moved: walk its chain
walkChain(s, oldNatGroup, k, h) ==
    sweepGroups(IF ~s.w.hung /\ ~isChainEvacuated(at(status(s.w), oldNatGroup))
                THEN moveDisplaced(moveChain(s.w, oldNatGroup, 1, s.allowedMoves),
                                   oldNatGroup, k, h)
                ELSE s)

\* a moveGroups that moves the natural group of the key and no other
moveGroupsNatural(w, group, k, h) ==
    LET oldNatGroup == BitAnd(group, w.m.old.groupMask) IN
    IF ~isEvacuated(at(status(w), oldNatGroup))
    THEN moveGroup(w, oldNatGroup)
    ELSE w

\* a moveGroups with one move credit
moveGroupsOneCredit(w, group, k, h) ==
    LET oldNatGroup == BitAnd(group, w.m.old.groupMask) IN
    walkChain(IF ~isEvacuated(at(status(w), oldNatGroup))
              THEN [w |-> moveGroup(w, oldNatGroup), allowedMoves |-> 0]
              ELSE [w |-> w, allowedMoves |-> 1],
              oldNatGroup, k, h)

moveGroups(w, group, k, h) ==
    LET oldNatGroup == BitAnd(group, w.m.old.groupMask) IN
    \* First, if the natural group for this key has not been moved, move it
    walkChain(IF ~isEvacuated(at(status(w), oldNatGroup))
              THEN [w |-> moveGroup(w, oldNatGroup), allowedMoves |-> 1]
              ELSE [w |-> w, allowedMoves |-> 2],
              oldNatGroup, k, h)

Set(w, k, v) == set(w, k, v, 1, TRUE)

(***************************************************************************)
(* Delete                                                                  *)
(***************************************************************************)
\* a Delete that counts an element out whether or not it found the key
deleteFoundBlind(w, k, h) ==
    LET f == find(w, w.m.current, k, h) IN
    IF w.hung THEN w
    ELSE IF f.hung THEN [w EXCEPT !.hung = TRUE]
    ELSE IF f.kv.nil THEN [w EXCEPT !.m.elemCount = w.m.elemCount - 1]
    ELSE
      LET cur == w.m.current
          emptyBitmask == MatchByte(emptySentinel,
                                    Slice(control(w, cur), f.group * 16)).mask
      IN erase(w, cur, f.group * 16 + f.offset,
               IF emptyBitmask = <<>> THEN deletedSentinel ELSE emptySentinel,
               IF emptyBitmask = <<>> THEN cur.deleteCount + 1 ELSE cur.deleteCount)

\* a Delete that leaves a DELETED byte in every group
deleteFoundTombstone(w, k, h) ==
    LET f == find(w, w.m.current, k, h) IN
    IF w.hung THEN w
    ELSE IF f.hung THEN [w EXCEPT !.hung = TRUE]
    ELSE IF f.kv.nil THEN w
    ELSE erase(w, w.m.current, f.group * 16 + f.offset, deletedSentinel,
               w.m.current.deleteCount + 1)

\* Delete after its call of moveGroups
deleteFound(w, k, h) ==
    LET f == find(w, w.m.current, k, h) IN
    IF w.hung THEN w
    ELSE IF f.hung THEN [w EXCEPT !.hung = TRUE]
    ELSE IF f.kv.nil THEN w
    ELSE
      LET cur == w.m.current
          emptyBitmask == MatchByte(emptySentinel,
                                    Slice(control(w, cur), f.group * 16)).mask
      IN erase(w, cur, f.group * 16 + f.offset,
               IF emptyBitmask = <<>> THEN deletedSentinel ELSE emptySentinel,
               IF emptyBitmask = <<>> THEN cur.deleteCount + 1 ELSE cur.deleteCount)

Delete(w, k) ==
    LET h == hashFunc(w.m, k)
        group == BitAnd(h, w.m.current.groupMask)
    IN deleteFound(IF w.m.old # NilTable
                   THEN noteWrite(w, moveGroups(w, group, k, h), k, h)
                   ELSE w,
                   k, h)

(***************************************************************************)
(* Range.  The local variables of Range are the record iter: the snapshots *)
(* old, growStatus and cur (cur also stands for curControl and curSlots,   *)
(* which are slices of the same arrays), the random word r, and the loop   *)
(* variables i, group, j, offset of the loop Range is in (phase).          *)
(* rangeOld and rangeCur are the bodies of the two inner loops: what one   *)
(* iteration does at position pos, which is to call f with a pair, or to   *)
(* go on (continue) without a call.                                        *)
(***************************************************************************)
\* (r >> 61) & offsetMask
startOffset(r) == BitAnd(r.hi, 15)

\* the snapshots taken when Range begins, and the first loop it enters
rangeBegin(w, r) ==
    [old |-> w.m.old,
     growStatus |-> w.m.growStatus,
     cur |-> w.m.current,
     r |-> r,
     phase |-> IF w.m.old # NilTable THEN "old" ELSE "cur",
     i |-> 0,
     group |-> IF w.m.old # NilTable
               THEN BitAnd(r.lo, w.m.old.groupMask)
               ELSE BitAnd(r.lo, Len(control(w, w.m.current)) \div 16 - 1),
     j |-> 0,
     offset |-> startOffset(r),
     stopped |-> FALSE]

\* the loop over the snapshot of old is over: enter the loop over cur
enterCur(w, iter) ==
    [iter EXCEPT !.phase = "cur",
                 !.i = 0,
                 !.group = BitAnd(iter.r.lo, Len(control(w, iter.cur)) \div 16 - 1),
                 !.j = 0,
                 !.offset = startOffset(iter.r)]

\* j, offset = j+1, (offset+1)&offsetMask
nextOffset(iter) ==
    [iter EXCEPT !.j = @ + 1, !.offset = BitAnd(iter.offset + 1, 15)]

\* the inner loop after n more iterations
atOffset(iter, n) ==
    [iter EXCEPT !.j = @ + n, !.offset = BitAnd(iter.offset + n, 15)]

\* i, group = i+1, (group+1)&mask, and the inner loop starts again
nextGroup(iter, mask) ==
    [iter EXCEPT !.i = @ + 1,
                 !.group = BitAnd(iter.group + 1, mask),
                 !.j = 0,
                 !.offset = startOffset(iter.r)]

\* what an iteration of an inner loop comes to: a call f(key, value), a
\* continue, or a lookup that never returns
emit(k, v) == [emit |-> TRUE, key |-> k, value |-> v, hung |-> FALSE]
continue == [emit |-> FALSE, key |-> 0, value |-> 0, hung |-> FALSE]
never == [emit |-> FALSE, key |-> 0, value |-> 0, hung |-> TRUE]

\* a loop over old that leaves the keys of an evacuated group to the loop
\* over cur
rangeFoundLater(f) ==
    IF f.hung THEN never ELSE continue

\* the loop over old, at a key of an evacuated group: f is what find found
\* in current
rangeFound(f) ==
    IF f.hung THEN never
    ELSE IF ~f.kv.nil THEN emit(f.kv.Key, f.kv.Value)
    ELSE continue

\* either loop, at a key that is looked up with Get: g is what Get returned
rangeGot(k, g) ==
    IF g.hung THEN never
    ELSE IF ~g.ok THEN continue
    ELSE emit(k, g.v)

\* a loop over cur that does not skip the keys that are in the snapshot of
\* old
rangeNewNoSkip(w, iter, k, v, o) ==
    IF o.hung THEN never
    ELSE IF iter.cur.groupMask = w.m.current.groupMask THEN emit(k, v)
    ELSE rangeGot(k, Get(w, k))

\* a loop over cur that emits the pair of the snapshot even after the Map
\* has grown
rangeNewSnapshot(w, iter, k, v, o) ==
    IF o.hung THEN never
    ELSE IF ~o.kv.nil THEN continue
    ELSE emit(k, v)

\* the loop over cur, at the pair (k, v): o is what find found in the
\* snapshot of old
rangeNew(w, iter, k, v, o) ==
    IF o.hung THEN never
    ELSE IF ~o.kv.nil THEN continue
    ELSE IF iter.cur.groupMask = w.m.current.groupMask THEN emit(k, v)
    ELSE rangeGot(k, Get(w, k))

\* a loop over old that emits every pair of the snapshot, evacuated or not
rangeOldGolden(w, iter, pos) ==
    IF isStored(at(control(w, iter.old), pos))
    THEN emit(at(slots(w, iter.old), pos).Key, at(slots(w, iter.old), pos).Value)
    ELSE continue

\* the body of the inner loop over the snapshot of old
rangeOld(w, iter, pos) ==
    LET old == iter.old
        growStatus == w.statuses[iter.growStatus]
    IN IF isStored(at(control(w, old), pos))
       THEN LET k == at(slots(w, old), pos).Key IN
            IF ~isEvacuated(at(growStatus, pos \div 16))
            THEN emit(k, at(slots(w, old), pos).Value)
            ELSE IF iter.cur.groupMask = w.m.current.groupMask \/ w.m.old = NilTable
            THEN rangeFound(find(w, w.m.current, k, hashFunc(w.m, k)))
            ELSE rangeGot(k, Get(w, k))
       ELSE continue

\* the body of the inner loop over the snapshot of current
rangeCur(w, iter, pos) ==
    LET old == iter.old
        cur == iter.cur
        curControl == control(w, cur)
        curSlots == slots(w, cur)
    IN IF isStored(at(curControl, pos))
       THEN LET curGroup == pos \div 16
                k == at(curSlots, pos).Key
                h == IF ~curHasDisplaced(at(w.statuses[iter.growStatus],
                                            BitAnd(curGroup, old.groupMask)))
                     THEN reconstructHash(cur, at(curControl, pos), curGroup)
                     ELSE hashFunc(w.m, k)
            IN rangeNew(w, iter, k, at(curSlots, pos).Value,
                        IF old # NilTable THEN find(w, old, k, h)
                        ELSE [kv |-> NilKV, group |-> 0, offset |-> 0, hung |-> FALSE])
       ELSE continue

\* the iterations of the inner loop that are left in the group of iter, by
\* the number of iterations from iter.j on; the Map does not change between
\* two of them unless f writes
innerLoop(w, iter) ==
    [n \in 0 .. 15 - iter.j |->
        LET pos == iter.group * 16 + BitAnd(iter.offset + n, 15) IN
        IF iter.phase = "old" THEN rangeOld(w, iter, pos) ELSE rangeCur(w, iter, pos)]

\* an outer loop that ends one group early
outerLoopShort(w, iter) ==
    iter.i < Len(control(w, IF iter.phase = "old" THEN iter.old ELSE iter.cur)) \div 16 - 1

\* the condition of the outer loop Range is in
outerLoop(w, iter) ==
    iter.i < Len(control(w, IF iter.phase = "old" THEN iter.old ELSE iter.cur)) \div 16

\* old.groupMask, loopMask
outerMask(w, iter) ==
    IF iter.phase = "old" THEN iter.old.groupMask
    ELSE Len(control(w, iter.cur)) \div 16 - 1

(***************************************************************************)
(* State.                                                                  *)
(***************************************************************************)
VARIABLES
    m,          \* the Map struct
    tables,     \* heap: backing arrays (control, slots) of the fixedTables
    statuses,   \* heap: backing arrays of the growStatus slices
    hung,       \* an operation entered a probe loop that never ends
    obs,        \* what the evacuation has done so far
    it,         \* the local variables of the running Range call
    pc,         \* "idle" (before Range), "callback" (inside f) or "returned"
    cb,         \* the arguments of the running callback invocation
    last,       \* the most recent public operation and what it returned
    mirror,     \* the reference map of the tests (Vmap.mirror)
    track,      \* the key sets the tests keep during a Range
    env         \* what the caller has done so far

vars == <<m, tables, statuses, hung, obs, it, pc, cb, last, mirror, track, env>>

World == [m |-> m, tables |-> tables, statuses |-> statuses, hung |-> hung,
          obs |-> obs]

(***************************************************************************)
(* The callers of the Map: the configurations and key patterns of          *)
(* TestMap_RangeAddDelete and Vmap.  Fill keys are Set in ascending order  *)
(* (Set(i, i)); hot keys are overwritten, deleted and re-inserted.         *)
(***************************************************************************)
\* New(capacity)
Capacities == {8}
\* m.seed = uintptr(rep); rep 0 uses identityHash and rep 1 zeroHash
Configs == {[hashFunc |-> "identityHash", seed |-> 0],
            [hashFunc |-> "zeroHash", seed |-> 1]}
HotKeys == {0, 40}
\* a key that is never Set
AbsentKey == MaxKey + 1
\* the n-th overwrite writes the value FreshValue + n, which no key has yet
FreshValue == MaxKey + 1
\* the callers overwrite, delete and read when this many fill keys have been
\* inserted
OpLevels == {13, 52, 53, 54}
\* and call Range when this many have
RangeLevels == {13, 52, 53}
\* the callback invocations (rangeIndex) in which the callback writes or
\* returns false
CbIndexes == {0, 45}
\* the random word r of Range, as (r >> 61, r & 0xFFFF)
RandomWords == {[hi |-> 0, lo |-> 0], [hi |-> 5, lo |-> 3]}

NoIter == [old |-> NilTable, growStatus |-> NilRef, cur |-> NilTable,
           r |-> [hi |-> 0, lo |-> 0], phase |-> "none",
           i |-> 0, group |-> 0, j |-> 0, offset |-> 0, stopped |-> FALSE]
NoCallback == [key |-> 0, value |-> 0, fresh |-> FALSE, index |-> 0]
NoTrack == [allowed |-> {}, mustSee |-> {}, deleted |-> {},
            addedAfterDeleted |-> {}, log |-> <<>>,
            recent |-> 0, mutated |-> FALSE]
NoOp == [op |-> "New", key |-> 0, value |-> 0, ok |-> FALSE]

\* the Go garbage collector: arrays nothing refers to any more are gone
collect(w, iter) ==
    LET liveT == {w.m.current.mem, w.m.old.mem, iter.old.mem, iter.cur.mem}
        liveS == {w.m.growStatus, iter.growStatus}
    IN [w EXCEPT
          !.tables = [a \in DOMAIN w.tables |->
                         IF a \in liveT THEN w.tables[a]
                         ELSE [control |-> NoArray, slots |-> NoArray]],
          !.statuses = [a \in DOMAIN w.statuses |->
                         IF a \in liveS THEN w.statuses[a] ELSE NoArray]]

Install(w) ==
    /\ m' = w.m
    /\ tables' = w.tables
    /\ statuses' = w.statuses
    /\ hung' = w.hung
    /\ obs' = w.obs

Init ==
    \E capacity \in Capacities, c \in Configs :
        LET w == New(capacity, c.hashFunc, c.seed) IN
        /\ m = w.m
        /\ tables = w.tables
        /\ statuses = w.statuses
        /\ hung = FALSE
        /\ obs = w.obs
        /\ it = NoIter
        /\ pc = "idle"
        /\ cb = NoCallback
        /\ last = NoOp
        /\ mirror = <<>>
        /\ track = NoTrack
        /\ env = [nextKey |-> 0, ops |-> 0]

\* the caller may write now: before Range, or inside the callback
MayWrite ==
    /\ ~hung
    /\ \/ pc = "idle"
       \/ pc = "callback" /\ env.ops < MaxOps

\* the caller may read now
MayRead ==
    /\ ~hung
    /\ pc = "idle"
    /\ env.nextKey \in OpLevels
    /\ last.op \notin {"Get", "Len"}

MayHotOp ==
    /\ MayWrite
    /\ env.ops < MaxOps
    /\ pc = "idle" => env.nextKey \in OpLevels

\* Vmap.Set / the set closure of TestMap_RangeAddDelete: trackSet
trackSet(t, k) ==
    IF pc # "callback" THEN t
    ELSE [t EXCEPT !.allowed = @ \cup {k},
                   !.addedAfterDeleted = IF k \in t.deleted THEN @ \cup {k} ELSE @,
                   !.deleted = @ \ {k},
                   !.recent = 0,
                   !.mutated = TRUE]

\* trackDelete
trackDelete(t, k) ==
    IF pc # "callback" THEN t
    ELSE [t EXCEPT !.allowed = @ \ {k},
                   !.mustSee = @ \ {k},
                   !.deleted = @ \cup {k},
                   !.addedAfterDeleted = @ \ {k},
                   !.recent = 0,
                   !.mutated = TRUE]

countOp(e, k, fresh) ==
    [e EXCEPT !.nextKey = IF fresh THEN @ + 1 ELSE @,
              !.ops = IF ~fresh \/ pc = "callback" THEN @ + 1 ELSE @]

mirrorSet(mp, k, v) == [x \in DOMAIN mp \cup {k} |-> IF x = k THEN v ELSE mp[x]]
mirrorDelete(mp, k) == [x \in DOMAIN mp \ {k} |-> mp[x]]

\* m.Set(k, v)
DoSet(k, v, fresh) ==
    /\ Install(collect(Set(World, k, v), it))
    /\ mirror' = mirrorSet(mirror, k, v)
    /\ track' = trackSet(track, k)
    /\ env' = countOp(env, k, fresh)
    /\ last' = [op |-> "Set", key |-> k, value |-> v, ok |-> TRUE]
    /\ cb' = [cb EXCEPT !.fresh = FALSE]
    /\ UNCHANGED <<it, pc>>

\* Set(i, i) of the next fill key
SetFill ==
    /\ MayWrite
    /\ env.nextKey < MaxKey
    /\ DoSet(env.nextKey, env.nextKey, TRUE)

\* Vmap.SetBulk, addBulk: Set(i, i) of the n fill keys from k on, in
\* ascending order (the first half of the keys, then the second half)
RECURSIVE SetBulk(_, _, _)
SetBulkNext(w, k, n) ==
    IF w.hung THEN w ELSE SetBulk(w, k, n)

SetBulk(w, k, n) ==
    IF n = 1 THEN Set(w, k, k)
    ELSE SetBulkNext(SetBulk(w, k, n \div 2), k + n \div 2, n - n \div 2)

\* trackSet of each of the keys ks
trackSetBulk(t, ks) ==
    [t EXCEPT !.allowed = @ \cup ks,
              !.addedAfterDeleted = @ \cup (ks \cap t.deleted),
              !.deleted = @ \ ks,
              !.recent = 0,
              !.mutated = TRUE]

\* the callback adds the next BulkLen fill keys in one invocation
SetFillBulk ==
    /\ MayWrite
    /\ pc = "callback"
    /\ env.nextKey + BulkLen <= MaxKey
    /\ Install(collect(SetBulk(World, env.nextKey, BulkLen), it))
    /\ mirror' = [x \in DOMAIN mirror \cup (env.nextKey .. env.nextKey + BulkLen - 1) |->
                     IF x >= env.nextKey THEN x ELSE mirror[x]]
    /\ track' = trackSetBulk(track, env.nextKey .. env.nextKey + BulkLen - 1)
    /\ env' = [env EXCEPT !.nextKey = @ + BulkLen, !.ops = @ + 1]
    /\ last' = [op |-> "Set", key |-> env.nextKey + BulkLen - 1,
                value |-> env.nextKey + BulkLen - 1, ok |-> TRUE]
    /\ cb' = [cb EXCEPT !.fresh = FALSE]
    /\ UNCHANGED <<it, pc>>

\* Set(k, v) of a key that was inserted before
SetHot ==
    /\ MayHotOp
    /\ \E k \in HotKeys :
          /\ k < env.nextKey
          /\ DoSet(k, FreshValue + env.ops, FALSE)

\* m.Delete(k)
DeleteKey ==
    /\ MayHotOp
    /\ \E k \in HotKeys \cup {AbsentKey} :
          /\ k < env.nextKey \/ (k = AbsentKey /\ pc = "idle")
          /\ Install(collect(Delete(World, k), it))
          /\ mirror' = mirrorDelete(mirror, k)
          /\ track' = trackDelete(track, k)
          /\ env' = countOp(env, k, FALSE)
          /\ last' = [op |-> "Delete", key |-> k, value |-> 0, ok |-> FALSE]
          /\ cb' = [cb EXCEPT !.fresh = FALSE]
          /\ UNCHANGED <<it, pc>>

\* m.Get(k)
GetKey ==
    /\ MayRead
    /\ \E k \in HotKeys \cup {AbsentKey} :
          LET g == Get(World, k) IN
          /\ last' = [op |-> "Get", key |-> k, value |-> g.v, ok |-> g.ok]
          /\ hung' = g.hung
          /\ UNCHANGED <<m, tables, statuses, obs, it, pc, cb, mirror, track, env>>

\* m.Len()
LenCall ==
    /\ MayRead
    /\ last' = [op |-> "Len", key |-> 0, value |-> MapLen(World), ok |-> TRUE]
    /\ UNCHANGED <<m, tables, statuses, hung, obs, it, pc, cb, mirror, track, env>>

\* The callback of the tests.  It first records the pair it is called with
\* (seen.add(key) and the check against allowed); in the invocations whose
\* index is not in CbIndexes it then just returns true.  rangeDrive runs
\* Range, and the callback invocations that just return true, up to an
\* invocation in which the callback may write or return false.  track.recent
\* counts the pairs emitted since that invocation returned, up to the next
\* write of the Map.
seenAdd(t, calls) ==
    [t EXCEPT !.log = @ \o [x \in 1 .. Len(calls) |->
                               [key |-> calls[x].key, value |-> calls[x].value,
                                allowed |-> calls[x].key \in t.allowed,
                                deleted |-> calls[x].key \in t.deleted,
                                reAdded |-> calls[x].key \in t.addedAfterDeleted]],
              !.recent = @ + Len(calls)]

\* the number of invocations from invocation index up to the next one in
\* which the callback may write or return false; 0 if there is none
callsToPause(index) ==
    IF \E c \in CbIndexes : c >= index
    THEN (CHOOSE c \in CbIndexes : c >= index /\ \A d \in CbIndexes : d >= index => c <= d)
         - index + 1
    ELSE 0

\* the iterations among visits (a function on 0 .. N) that call f or never
\* return, in the order of the loop
RECURSIVE callsOf(_, _)
callsOf(visits, n) ==
    IF n \notin DOMAIN visits THEN <<>>
    ELSE IF visits[n].emit \/ visits[n].hung
    THEN <<[visits[n] EXCEPT !.emit = TRUE] @@ [n |-> n]>> \o callsOf(visits, n + 1)
    ELSE callsOf(visits, n + 1)

rangeResult(iter, call, t, index) ==
    [res |-> [it |-> iter, emit |-> call.emit, key |-> call.key, value |-> call.value,
              hung |-> call.hung],
     track |-> t, index |-> index]

RECURSIVE rangeDrive(_, _, _, _)

\* Range runs the inner loop of one group: calls are the invocations of f
\* it comes to, pause the number of invocations up to the pausing one
rangeGroup(w, t, iter, index, calls, pause) ==
    IF \E x \in 1 .. Len(calls) : calls[x].hung /\ (pause = 0 \/ x <= pause)
    THEN rangeResult(iter, never, t, index)
    ELSE IF pause # 0 /\ Len(calls) >= pause
    THEN rangeResult(atOffset(iter, calls[pause].n), calls[pause],
                     seenAdd(t, SubSeq(calls, 1, pause)), index + pause - 1)
    ELSE rangeDrive(w, seenAdd(t, calls), nextGroup(iter, outerMask(w, iter)),
                    index + Len(calls))

\* Range runs from the loop position in iter
rangeDrive(w, t, iter, index) ==
    IF outerLoop(w, iter)
    THEN rangeGroup(w, t, iter, index, callsOf(innerLoop(w, iter), 0),
                    callsToPause(index))
    ELSE IF iter.phase = "old" THEN rangeDrive(w, t, enterCur(w, iter), index)
    ELSE rangeResult([iter EXCEPT !.phase = "done"], continue, t, index)

\* Range calls f, or returns
rangeArrive(d) ==
    /\ it' = d.res.it
    /\ hung' = d.res.hung
    /\ track' = d.track
    /\ pc' = IF d.res.emit \/ d.res.hung THEN "callback" ELSE "returned"
    /\ cb' = IF d.res.emit
             THEN [key |-> d.res.key, value |-> d.res.value, fresh |-> TRUE,
                   index |-> d.index]
             ELSE NoCallback

\* m.Range(f) is called
RangeStart ==
    /\ ~hung
    /\ pc = "idle"
    /\ env.nextKey \in RangeLevels
    /\ \E r \in (IF m.seed = 0 \/ m.seed = 42 THEN {[hi |-> 0, lo |-> 0]} ELSE RandomWords) :
          /\ rangeArrive(rangeDrive(World,
                                    [NoTrack EXCEPT !.allowed = DOMAIN mirror,
                                                    !.mustSee = DOMAIN mirror],
                                    rangeBegin(World, r), 0))
          /\ last' = [op |-> "Range", key |-> 0, value |-> 0, ok |-> FALSE]
          /\ UNCHANGED <<m, tables, statuses, obs, mirror, env>>

\* a Range that goes on whatever f returned
rangeResumeAlways(w, t, iter, index, cont) ==
    rangeDrive(w, [t EXCEPT !.recent = 0], nextOffset(iter), index + 1)

\* if !f(k, v) { return }: Range goes on after f returned true, and returns
\* after f returned false
rangeResume(w, t, iter, index, cont) ==
    IF cont THEN rangeDrive(w, [t EXCEPT !.recent = 0], nextOffset(iter), index + 1)
    ELSE rangeResult([iter EXCEPT !.stopped = TRUE], continue, t, index)

\* f returns true
CallbackContinue ==
    /\ ~hung
    /\ pc = "callback"
    /\ rangeArrive(rangeResume(World, track, it, cb.index, TRUE))
    /\ last' = [op |-> "f", key |-> cb.key, value |-> cb.index, ok |-> TRUE]
    /\ UNCHANGED <<m, tables, statuses, obs, mirror, env>>

\* f returns false
CallbackStop ==
    /\ ~hung
    /\ pc = "callback"
    /\ cb.fresh
    /\ rangeArrive(rangeResume(World, track, it, cb.index, FALSE))
    /\ last' = [op |-> "f", key |-> cb.key, value |-> cb.index, ok |-> FALSE]
    /\ UNCHANGED <<m, tables, statuses, obs, mirror, env>>

Next ==
    \/ RangeStart
    \/ CallbackContinue
    \/ CallbackStop
    \/ SetFill
    \/ SetFillBulk
    \/ SetHot
    \/ DeleteKey
    \/ GetKey
    \/ LenCall

Spec == Init /\ [][Next]_vars

(***************************************************************************)
(* The callers of New: a test (TestMap_StoredKeys) creates a Map with a   *)
(* capacity hint and Sets the keys 0, 1, 2, ... into it, here until the    *)
(* Map starts to grow.                                                     *)
(***************************************************************************)
\* no Map has been created yet
NoMap == [m |-> NilTable, tables |-> <<>>, statuses |-> <<>>, hung |-> FALSE,
          obs |-> NoObs]

InitNew ==
    \E capacity \in 0 .. MaxCapacity, c \in Configs :
        /\ m = NoMap.m
        /\ tables = NoMap.tables
        /\ statuses = NoMap.statuses
        /\ hung = NoMap.hung
        /\ obs = NoMap.obs
        /\ it = NoIter
        /\ pc = "new"
        /\ cb = NoCallback
        /\ last = [op |-> "none", key |-> 0, value |-> 0, ok |-> FALSE]
        /\ mirror = <<>>
        /\ track = NoTrack
        /\ env = [nextKey |-> 0, ops |-> 0, capacityHint |-> capacity, config |-> c]

\* m := New(tt.capacity), and the test sets the hash function
NewCall ==
    /\ pc = "new"
    /\ Install(New(env.capacityHint, env.config.hashFunc, env.config.seed))
    /\ pc' = "idle"
    /\ last' = NoOp
    /\ UNCHANGED <<it, cb, mirror, track, env>>

\* m.Set(key, Value(key)) of the next key
FillSet ==
    /\ pc = "idle"
    /\ ~hung
    /\ m.resizeGenerations = 0
    /\ DoSet(env.nextKey, env.nextKey, TRUE)

NextNew ==
    \/ NewCall
    \/ FillSet

SpecNew == InitNew /\ [][NextNew]_vars

(***************************************************************************)
(* The callers of MatchByte (match_test.go): the byte c, and a buffer that *)
(* is a slice of an array in which the positions of hits hold c.           *)
(***************************************************************************)
\* c is a byte of the tests or a sentinel; the positions of the array that
\* hold c (hits) are none, one, those of "match 3", the first and the last
\* of a group, or all
InitMatch ==
    \E c \in {0, 42, emptySentinel, deletedSentinel},
       hits \in {{}, {0, 3, 4}, {0, 15}, 0 .. ArrayLen - 1}
                  \cup {{j} : j \in 0 .. ArrayLen - 1},
       from \in 0 .. MaxFrom :
        \E n \in 0 .. ArrayLen - from :
            /\ m = NoMap.m
            /\ tables = NoMap.tables
            /\ statuses = NoMap.statuses
            /\ hung = NoMap.hung
            /\ obs = NoMap.obs
            /\ it = NoIter
            /\ pc = "idle"
            /\ cb = NoCallback
            /\ last = [op |-> "none", key |-> 0, value |-> <<>>, ok |-> FALSE]
            /\ mirror = <<>>
            /\ track = NoTrack
            /\ env = [c |-> c,
                      buffer |-> [base |-> [j \in 1 .. ArrayLen |->
                                              IF j - 1 \in hits THEN c
                                              ELSE (c + 17) % 256],
                                  from |-> from,
                                  len |-> n]]

\* gotMask, gotOk := MatchByte(tt.c, buffer)
MatchCall ==
    /\ pc = "idle"
    /\ LET r == MatchByte(env.c, env.buffer) IN
       last' = [op |-> "MatchByte", key |-> env.c, value |-> r.mask, ok |-> r.ok]
    /\ pc' = "returned"
    /\ UNCHANGED <<m, tables, statuses, hung, obs, it, cb, mirror, track, env>>

SpecMatch == InitMatch /\ [][MatchCall]_vars

(***************************************************************************)
(* The walk over the groups of a table that find, set and moveChain make:  *)
(* the number of groups is a power of two, the walk starts at any group.   *)
(***************************************************************************)
\* the two statements in the other order: group = (group + probeCount) &
\* groupMask; probeCount++
probeStepPostIncrement(group, probeCount, groupMask) ==
    [group |-> BitAnd(group + probeCount, groupMask),
     probeCount |-> probeCount + 1]

\* probeCount++
\* group = (group + probeCount) & t.groupMask
probeStep(group, probeCount, groupMask) ==
    [group |-> BitAnd(group + probeCount + 1, groupMask),
     probeCount |-> probeCount + 1]

\* the tables have 16 * 2^h2Shift positions, h2Shift from 0 to MaxH2Shift
GroupCounts == {2 ^ s : s \in 0 .. MaxH2Shift}

\* group := h & groupMask, probeCount := 0, for a table of any of the sizes
InitProbe ==
    \E n \in GroupCounts :
        \E g0 \in 0 .. n - 1 :
            /\ m = NoMap.m
            /\ tables = NoMap.tables
            /\ statuses = NoMap.statuses
            /\ hung = NoMap.hung
            /\ obs = NoMap.obs
            /\ it = NoIter
            /\ pc = "probing"
            /\ cb = NoCallback
            /\ last = [op |-> "none", key |-> 0, value |-> <<>>, ok |-> FALSE]
            /\ mirror = <<>>
            /\ track = NoTrack
            /\ env = [groupMask |-> n - 1, start |-> g0, group |-> g0,
                      probeCount |-> 0, visited |-> <<g0>>]

\* one more turn of the loop, as long as the loop has groups left
\* (probeCount >= len(t.slots)/16 is the panic of the debug build)
ProbeNext ==
    /\ pc = "probing"
    /\ env.probeCount + 1 < env.groupMask + 1
    /\ LET p == probeStep(env.group, env.probeCount, env.groupMask) IN
       env' = [env EXCEPT !.group = p.group, !.probeCount = p.probeCount,
                          !.visited = Append(@, p.group)]
    /\ UNCHANGED <<m, tables, statuses, hung, obs, it, pc, cb, last, mirror, track>>

SpecProbe == InitProbe /\ [][ProbeNext]_vars

(***************************************************************************)
(* The caller that fills a table to its last position                      *)
(* (TestMap_ForceFill): a Map created with resizing disabled, in which the *)
(* fill keys are Set until one position is left, Set again, and then the   *)
(* one element of the test case is Set.                                    *)
(***************************************************************************)
\* m := New(size) alone, without m.disableResizing = true
NewResizing(capacity, hf, seed) == New(capacity, hf, seed)

\* m := New(size); m.disableResizing = true
NewNoResize(capacity, hf, seed) ==
    LET w == New(capacity, hf, seed) IN
    [w EXCEPT !.m.disableResizing = TRUE]

\* size: capacity hints for tables of 16, 32 and 64 positions
FillCapacities == {8, 20, 40}
\* for j := 1000; ...: the first fill key
FillBase == 2
\* tt.elem.Key: a key below the fill keys and one above them
ElemKeys == {1, 2 * MaxKey}
\* missingKey := Key(1e12): above the fill keys and the element's key
missingKey == 2 * MaxKey + 1

\* underlyingTableLen := len(m.current.slots)
underlyingTableLen == Len(slots(World, m.current))

InitFill ==
    \E capacity \in FillCapacities, c \in Configs, elem \in ElemKeys :
        /\ m = NoMap.m
        /\ tables = NoMap.tables
        /\ statuses = NoMap.statuses
        /\ hung = NoMap.hung
        /\ obs = NoMap.obs
        /\ it = NoIter
        /\ pc = "new"
        /\ cb = NoCallback
        /\ last = [op |-> "none", key |-> 0, value |-> 0, ok |-> FALSE]
        /\ mirror = <<>>
        /\ track = NoTrack
        /\ env = [nextKey |-> FillBase, ops |-> 0, capacityHint |-> capacity,
                  config |-> c, elem |-> elem]

\* m := New(size); m.disableResizing = true, and the hash function
NewFill ==
    /\ pc = "new"
    /\ Install(NewNoResize(env.capacityHint, env.config.hashFunc, env.config.seed))
    /\ pc' = "fill"
    /\ last' = NoOp
    /\ UNCHANGED <<it, cb, mirror, track, env>>

\* m.Set(Key(j), Value(j)) of the loop's first pass: the next fill key,
\* until underlyingTableLen-1 keys are in
FillFirst ==
    /\ pc = "fill"
    /\ ~hung
    /\ env.nextKey < FillBase + underlyingTableLen - 1
    /\ DoSet(env.nextKey, env.nextKey, TRUE)

\* m.Set(Key(j), Value(j)) of the later passes: a fill key that is in
\* already
FillAgain ==
    /\ pc = "fill"
    /\ ~hung
    /\ env.nextKey = FillBase + underlyingTableLen - 1
    /\ \E j \in FillBase .. env.nextKey - 1 :
          /\ Install(Set(World, j, j))
          /\ mirror' = mirrorSet(mirror, j, j)
          /\ last' = [op |-> "Set", key |-> j, value |-> j, ok |-> TRUE]
    /\ UNCHANGED <<it, pc, cb, track, env>>

\* m.Set(tt.elem.Key, tt.elem.Value)
FillLast ==
    /\ pc = "fill"
    /\ ~hung
    /\ env.nextKey = FillBase + underlyingTableLen - 1
    /\ Install(Set(World, env.elem, env.elem + 1))
    /\ mirror' = mirrorSet(mirror, env.elem, env.elem + 1)
    /\ last' = [op |-> "Set", key |-> env.elem, value |-> env.elem + 1, ok |-> TRUE]
    /\ pc' = "full"
    /\ UNCHANGED <<it, cb, track, env>>

NextFill ==
    \/ NewFill
    \/ FillFirst
    \/ FillAgain
    \/ FillLast

SpecFill == InitFill /\ [][NextFill]_vars

(***************************************************************************)
(* The caller of reconstructHash (Test_fixedTable_reconstructHash): a      *)
(* table of a size that is a power of two, and a hash.                     *)
(***************************************************************************)
\* tt.capacity: 16, 32, ... positions
TableSizes == {16 * n : n \in GroupCounts}

\* the hashes are of HashWidth bits
HashWidth == 30

\* hash: the low numbers, the same shifted by four bits, and the
\* complements of both
Hashes ==
    LET low == 0 .. 2 ^ (MaxH2Shift + 4) - 1
        some == low \cup {ShiftLeft(x, 4) : x \in low}
    IN some \cup {2 ^ HashWidth - 1 - x : x \in some}

InitHash ==
    \E capacity \in TableSizes, hash \in Hashes :
        /\ m = NoMap.m
        /\ tables = NoMap.tables
        /\ statuses = NoMap.statuses
        /\ hung = NoMap.hung
        /\ obs = NoMap.obs
        /\ it = NoIter
        /\ pc = "idle"
        /\ cb = NoCallback
        /\ last = [op |-> "none", key |-> 0, value |-> 0, ok |-> FALSE]
        /\ mirror = <<>>
        /\ track = NoTrack
        /\ env = [capacity |-> capacity, hash |-> hash, group |-> 0, h2 |-> 0]

\* table := newFixedTable(tt.capacity); group := hash & table.groupMask;
\* h2 := table.h2(hash); got := table.reconstructHash(h2, group)
ReconstructCall ==
    /\ pc = "idle"
    /\ LET table == newFixedTable(env.capacity, 0)
           group == BitAnd(env.hash, table.groupMask)
           h2v == h2(table, env.hash)
       IN /\ env' = [env EXCEPT !.group = group, !.h2 = h2v]
          /\ last' = [op |-> "reconstructHash", key |-> env.hash,
                      value |-> reconstructHash(table, h2v, group), ok |-> TRUE]
    /\ pc' = "returned"
    /\ UNCHANGED <<m, tables, statuses, hung, obs, it, cb, mirror, track>>

SpecHash == InitHash /\ [][ReconstructCall]_vars

(***************************************************************************)
(* The properties.                                                         *)
(***************************************************************************)
\* want, wantOk := vm.mirror[k]
RefGet(k) ==
    IF k \in DOMAIN mirror THEN [v |-> mirror[k], ok |-> TRUE, hung |-> FALSE]
    ELSE [v |-> zeroValue, ok |-> FALSE, hung |-> FALSE]

\* the keys the callers have used so far, the next fill key and the key
\* that is never Set
KnownKeys == (0 .. env.nextKey) \cup {AbsentKey}

\* the world after the step
WorldNext == [m |-> m', tables |-> tables', statuses |-> statuses', hung |-> hung',
              obs |-> obs']

\* the keys Range has emitted so far
seen == {track.log[i].key : i \in 1 .. Len(track.log)}

\* the pairs Range has emitted since the callback last returned, unless the
\* Map has been written since
recentCalls == (Len(track.log) - track.recent + 1) .. Len(track.log)

\* the Range call has run to its end without f returning false
RangeDone == pc = "returned" /\ ~it.stopped

\* C1: after any sequence of Set, Delete and Get, Get(k) returns for every
\* key what the reference map holds: (v, true) with the value last Set if k
\* is present, (0, false) if it is not.  Only Set and Delete change the Map,
\* so the states they and New leave behind are all there is to look at.
GetMatchesReference ==
    last.op \in {"New", "Set", "Delete"} =>
        \A k \in KnownKeys : Get(World, k) = RefGet(k)

\* a Get while the Map is growing returned the value a hot key was
\* overwritten with
GetMatchesReferenceWitness ==
    /\ m.old # NilTable
    /\ last.op = "Get"
    /\ last.ok
    /\ last.value >= FreshValue

\* C2: Len() is the number of keys of the reference map; a Set of a key
\* that is present leaves it unchanged.
LenMatchesReference ==
    MapLen(World) = Cardinality(DOMAIN mirror)

\* Len was called while the Map is growing, after an overwrite and a Delete
LenMatchesReferenceWitness ==
    /\ m.old # NilTable
    /\ last.op = "Len"
    /\ last.value = env.nextKey - 1
    /\ \E k \in DOMAIN mirror : mirror[k] >= FreshValue

\* C3: a Range whose callback does not write emits every key of the Map
\* exactly once, with its current value, and nothing else, whatever the
\* random word and whether or not the Map is growing.
RangeEmitsEachOnce ==
    (RangeDone /\ ~track.mutated) =>
        /\ Len(track.log) = Cardinality(DOMAIN mirror)
        /\ seen = DOMAIN mirror
        /\ \A i \in 1 .. Len(track.log) :
              mirror[track.log[i].key] = track.log[i].value

\* a Range over a growing Map, from a random position, after a Delete and
\* an overwrite
RangeEmitsEachOnceWitness ==
    /\ RangeDone
    /\ ~track.mutated
    /\ it.old # NilTable
    /\ it.r.hi # 0
    /\ Cardinality(DOMAIN mirror) < env.nextKey
    /\ \E i \in 1 .. Len(track.log) : track.log[i].value >= FreshValue

\* C4: a Range whose callback writes emits every key that was present when
\* Range was called and has not been deleted since exactly once.
RangeEmitsMustSeeOnce ==
    RangeDone =>
        /\ track.mustSee \subseteq seen
        /\ Cardinality(seen) < Len(track.log) =>
              \A k \in track.mustSee :
                 Cardinality({i \in 1 .. Len(track.log) : track.log[i].key = k}) = 1

\* the callback deleted a key and its Sets started two resizes of the table
\* Range iterates
RangeEmitsMustSeeOnceWitness ==
    /\ RangeDone
    /\ track.deleted # {}
    /\ it.old = NilTable
    /\ m.resizeGenerations >= it.cur.mem + 2
    /\ Cardinality(track.mustSee) > 8

\* C5: Range emits no key twice, unless the callback deleted the key and
\* then Set it again during this Range.
RangeEmitsNoDuplicate ==
    Cardinality(seen) < Len(track.log) =>
        \A i, j \in 1 .. Len(track.log) :
            (i < j /\ track.log[i].key = track.log[j].key) => track.log[j].reAdded

\* the callback deleted a key and Set it again while the Map was growing,
\* and Range emitted the key after that
RangeEmitsNoDuplicateWitness ==
    /\ RangeDone
    /\ it.old # NilTable
    /\ \E i \in 1 .. Len(track.log) : track.log[i].reAdded

\* C6: once the callback has deleted a key, and not Set it again, Range
\* does not emit the key.
RangeSkipsDeleted ==
    \A i \in 1 .. Len(track.log) : ~track.log[i].deleted

\* the callback deleted a key Range had not emitted yet, and Range ran to
\* its end over a Map that was growing
RangeSkipsDeletedWitness ==
    /\ RangeDone
    /\ it.old # NilTable
    /\ \E k \in track.deleted : k \notin seen

\* C7: every pair (k, v) Range emits is in the Map when it is emitted:
\* Get(k) returns (v, true) until the Map is written again.
RangeEmitsLivePairs ==
    \A i \in recentCalls :
        Get(World, track.log[i].key) =
            [v |-> track.log[i].value, ok |-> TRUE, hung |-> FALSE]

\* after the callback overwrote a key, Range emitted the key with its new
\* value
RangeEmitsLivePairsWitness ==
    /\ pc = "callback"
    /\ cb.index > 0
    /\ track.mutated
    /\ \E i \in recentCalls : track.log[i].value >= FreshValue

\* C8: when the callback returns false, Range returns at once: it calls the
\* callback no more.
RangeStopsOnFalse ==
    [][(pc = "callback" /\ last'.op = "f" /\ ~last'.ok)
          => (pc' = "returned" /\ track'.log = track.log)]_vars

\* the callback returned false in the loop over the snapshot of old, with
\* keys left to emit
RangeStopsOnFalseWitness ==
    /\ pc = "returned"
    /\ it.stopped
    /\ it.phase = "old"
    /\ last.op = "f"
    /\ ~last.ok
    /\ Len(track.log) < Cardinality(DOMAIN mirror)

\* C9: right after Set(k, v), Get(k) returns (v, true); right after
\* Delete(k), Get(k) returns (0, false); also while the Map is growing and
\* when the Set starts the resize.
GetAfterWrite ==
    /\ last.op = "Set" =>
          Get(World, last.key) = [v |-> last.value, ok |-> TRUE, hung |-> FALSE]
    /\ last.op = "Delete" =>
          Get(World, last.key) = [v |-> zeroValue, ok |-> FALSE, hung |-> FALSE]

\* the Set of a fill key has just started a resize: the groups of old have
\* not all been evacuated and its key is the newest
GetAfterWriteWitness ==
    /\ last.op = "Set"
    /\ last.key = env.nextKey - 1
    /\ m.old # NilTable
    /\ m.current.groupMask = 7
    /\ \E g \in 0 .. m.old.groupMask : ~isEvacuated(at(status(World), g))

\* C10: a Delete of a key that is not in the Map changes nothing a caller
\* can observe (every Get, Len), and changes no field of the Map unless the
\* Map is growing.
DeleteAbsentIsNoOp ==
    [][(last'.op = "Delete" /\ env'.ops # env.ops /\ last'.key \notin DOMAIN mirror)
          => /\ \A k \in KnownKeys : Get(WorldNext, k) = Get(World, k)
             /\ MapLen(WorldNext) = MapLen(World)
             /\ m.old = NilTable => UNCHANGED <<m, tables, statuses>>]_vars

\* a key that was never Set has been deleted from a Map that is not
\* growing and holds a tombstone
DeleteAbsentIsNoOpWitness ==
    /\ last.op = "Delete"
    /\ last.key = AbsentKey
    /\ m.old = NilTable
    /\ m.current.deleteCount > 0

\* C11: with resizing enabled no probe loop runs through as many groups as
\* its table has: no operation of the callers has entered a loop that never
\* ends, and in every state a write leaves behind the probe loops of find
\* (on current and on old) and of findFirstEmptyOrDeleted end from every
\* group they can start at, for a key that is absent (the probes for a key
\* that is present are the first of these), as do a Set and a Delete of a
\* key that is absent.
ProbesEnd ==
    /\ ~hung
    /\ last.op \in {"New", "Set", "Delete"} =>
          /\ \A g \in 0 .. m.current.groupMask :
                /\ ~find(World, m.current, AbsentKey, g).hung
                /\ ~findFirstEmptyOrDeleted(World, m.current, g).hung
          /\ m.old # NilTable =>
                \A g \in 0 .. m.old.groupMask :
                    ~find(World, m.old, AbsentKey, g).hung
          /\ ~Set(World, AbsentKey, zeroValue).hung
          /\ ~Delete(World, AbsentKey).hung

\* the table is filled up to its resize threshold with keys of one hash: a
\* Get of an absent key has probed every group but one before it came to
\* the group with an EMPTY byte
ProbesEndWitness ==
    /\ ~hung
    /\ m.hashFunc = "zeroHash"
    /\ m.old = NilTable
    /\ m.current.groupMask = 3
    /\ m.elemCount = m.resizeThreshold
    /\ last.op = "Get"
    /\ last.key = AbsentKey
    /\ find(World, m.current, AbsentKey, hashFunc(m, AbsentKey)).group = 2

\* C12: New(capacityHint) creates a current table whose size T is the
\* smallest power of two that is at least 16 and at least capacityHint * 8 /
\* 6.5 (T >= capacityHint * 16 / 13), with every control byte EMPTY,
\* groupMask = T/16 - 1, h2Shift = log2(T/16), no old table and
\* resizeThreshold = (T * 13) / 16; New(8) and New(10) give T = 16 and
\* New(16) gives T = 32.
NewTableSize ==
    last.op = "New" =>
        LET T == Len(control(World, m.current))
            c == env.capacityHint
        IN /\ \E n \in 4 .. 16 : T = 2 ^ n
           /\ T * 13 >= c * 16
           /\ T = 16 \/ (T \div 2) * 13 < c * 16
           /\ Len(slots(World, m.current)) = T
           /\ \A i \in 0 .. T - 1 : at(control(World, m.current), i) = emptySentinel
           /\ m.current.groupMask = T \div 16 - 1
           /\ 2 ^ m.current.h2Shift = T \div 16
           /\ m.old = NilTable
           /\ m.resizeThreshold = (T * 13) \div 16
           /\ c \in {8, 10} => T = 16
           /\ c = 16 => T = 32

\* New(16) has returned a table of 32 positions
NewTableSizeWitness ==
    /\ last.op = "New"
    /\ env.capacityHint = 16
    /\ Len(control(World, m.current)) = 32
    /\ m.resizeThreshold = 26

\* C13: while no more than capacityHint distinct keys have been Set into a
\* Map created by New(capacityHint), and none deleted, no resize has
\* started: old is nil and current is the table New allocated, whose size
\* is the one New computed.
CapacityHonoured ==
    (pc = "idle" /\ Cardinality(DOMAIN mirror) <= env.capacityHint) =>
        /\ m.old = NilTable
        /\ m.resizeGenerations = 0
        /\ m.current.mem = 0
        /\ Len(control(World, m.current)) = (m.current.groupMask + 1) * 16
        /\ m.resizeThreshold = (Len(control(World, m.current)) * 13) \div 16

\* capacityHint keys have been Set into a Map created by New(capacityHint),
\* for a hint that is a resize threshold: the table is as full as it gets
CapacityHonouredWitness ==
    /\ pc = "idle"
    /\ env.capacityHint > 16
    /\ env.nextKey = env.capacityHint
    /\ Cardinality(DOMAIN mirror) = env.capacityHint
    /\ m.elemCount = m.resizeThreshold
    /\ m.old = NilTable

\* C14: MatchByte(c, buffer) on a buffer of at least 16 bytes returns ok =
\* true and a mask whose bit i, for i in 0 .. 15, is 1 exactly when
\* buffer[i] = c, the bits 16 .. 31 being 0 whatever the bytes from index 16
\* on are; on a buffer of fewer than 16 bytes it returns (0, false).
MatchByteMask ==
    last.op = "MatchByte" =>
        LET buffer == env.buffer
            bits == {last.value[x] : x \in 1 .. Len(last.value)}
        IN IF buffer.len >= 16
           THEN /\ last.ok
                /\ \A x \in 1 .. Len(last.value) - 1 : last.value[x] < last.value[x + 1]
                /\ \A i \in 0 .. 31 :
                      i \in bits <=> (i <= 15 /\ buffer.base[buffer.from + i + 1] = env.c)
           ELSE /\ ~last.ok
                /\ bits = {}

\* a buffer that starts inside its array and has 17 bytes, all of them c:
\* the mask has the 16 low bits
MatchByteMaskWitness ==
    /\ last.op = "MatchByte"
    /\ last.ok
    /\ env.buffer.from > 0
    /\ env.buffer.len = 17
    /\ env.buffer.base[env.buffer.from + 17] = env.c
    /\ Len(last.value) = 16

storedPositions(w, t) ==
    {pos \in 0 .. Len(control(w, t)) - 1 : isStored(at(control(w, t), pos))}

\* the groups of old that moveGroup has not marked Evacuated
unmovedGroups(w) ==
    {g \in 0 .. w.m.old.groupMask : ~isEvacuated(at(status(w), g))}

\* C16: in every state a write leaves behind, elemCount is the number of
\* STORED control bytes of current plus, while the Map is growing, the
\* number of STORED control bytes in the groups of old that are not
\* Evacuated; and moveGroup of any of those groups leaves elemCount as it is.
ElemCountMatches ==
    last.op \in {"New", "Set", "Delete"} =>
        IF m.old = NilTable
        THEN m.elemCount = Cardinality(storedPositions(World, m.current))
        ELSE /\ m.elemCount =
                   Cardinality(storedPositions(World, m.current))
                   + Cardinality({pos \in storedPositions(World, m.old) :
                                     pos \div 16 \in unmovedGroups(World)})
             /\ \A g \in unmovedGroups(World) :
                   moveGroup(World, g).m.elemCount = m.elemCount

\* a Set that started a resize after a key had been deleted: some groups
\* of old are Evacuated and others are not
ElemCountMatchesWitness ==
    /\ last.op = "Set"
    /\ m.old # NilTable
    /\ unmovedGroups(World) # {}
    /\ unmovedGroups(World) # 0 .. m.old.groupMask
    /\ m.elemCount = env.nextKey - 1

MoveGroupOnce ==
    /\ obs.hits = 0
    /\ IF m.old = NilTable
       THEN obs.moves = obs.oldGroups
       ELSE /\ obs.oldGroups = m.old.groupMask + 1
            /\ obs.moves = obs.oldGroups - Cardinality(unmovedGroups(World))
    /\ (last.op \in {"Set", "Delete"} /\ m.old # NilTable) =>
          \A g \in unmovedGroups(World), k \in HotKeys :
              Get(moveGroup(World, g), k) = RefGet(k)

\* the Set of a fill key started a resize and the next write, a Delete of
\* a hot key, ended the growth: the four groups of old have been moved,
\* once each, and the key is gone
MoveGroupOnceWitness ==
    /\ last.op = "Delete"
    /\ last.key \in HotKeys
    /\ pc = "idle"
    /\ env.ops = 1
    /\ env.nextKey = m.resizeThreshold \div 2 + 1
    /\ ~Get(World, last.key).ok
    /\ m.old = NilTable
    /\ obs.oldGroups = 4
    /\ obs.moves = 4
    /\ m.elemCount < env.nextKey

\* C19: while the Map is growing every key that is in the Map has its pair
\* in exactly one golden place, decided by the old groups that hold the key:
\* in a STORED position of an old group that is not Evacuated if there is
\* one, and then current does not hold the key; in a STORED position of
\* current if every old group holding the key is Evacuated.
GoldenLocationByHolder ==
    (last.op \in {"Set", "Delete"} /\ m.old # NilTable) =>
        LET inCurrent == {at(slots(World, m.current), pos) :
                             pos \in storedPositions(World, m.current)}
            inUnmoved == {at(slots(World, m.old), pos) :
                             pos \in {p \in storedPositions(World, m.old) :
                                         p \div 16 \in unmovedGroups(World)}}
        IN /\ \A k \in DOMAIN mirror :
                 IF \E kv \in inUnmoved : kv.Key = k
                 THEN /\ KV(k, mirror[k]) \in inUnmoved
                      /\ \A kv \in inCurrent : kv.Key # k
                 ELSE KV(k, mirror[k]) \in inCurrent
           /\ \A kv \in inCurrent \cup inUnmoved : kv.Key \in DOMAIN mirror

\* the Map is growing after a hot key was overwritten: a key is still held
\* by an old group that is not Evacuated although Evacuated is set for its
\* old natural group, and other keys were moved to current
GoldenLocationWitness ==
    /\ last.op = "Set"
    /\ m.old # NilTable
    /\ \E k \in DOMAIN mirror : mirror[k] >= FreshValue
    /\ \E k \in DOMAIN mirror :
          /\ BitAnd(hashFunc(m, k), m.old.groupMask) \notin unmovedGroups(World)
          /\ storedGroups(World, m.old, k) \cap unmovedGroups(World) # {}
    /\ \E k \in DOMAIN mirror :
          storedGroups(World, m.old, k) \cap unmovedGroups(World) = {}

\* C19 as worded, by the old natural group of the key: the pair is in a
\* STORED position of current if Evacuated is set for the old natural group
\* of the key, and in a STORED position of old if it is not.
GoldenLocation ==
    (last.op \in {"Set", "Delete"} /\ m.old # NilTable) =>
        LET inCurrent == {at(slots(World, m.current), pos) :
                             pos \in storedPositions(World, m.current)}
            inOld == {at(slots(World, m.old), pos) :
                         pos \in storedPositions(World, m.old)}
        IN \A k \in DOMAIN mirror :
              IF BitAnd(hashFunc(m, k), m.old.groupMask) \in unmovedGroups(World)
              THEN KV(k, mirror[k]) \in inOld
              ELSE KV(k, mirror[k]) \in inCurrent

\* the groups of old on the probe sequence that starts at group g, up to and
\* including the first group with an EMPTY control byte
RECURSIVE chainOf(_, _, _)
chainOf(w, g, probeCount) ==
    IF \/ matchEmpty(Slice(control(w, w.m.old), g * 16)) # <<>>
       \/ probeCount > 2 * (w.m.old.groupMask + 1)
    THEN {g}
    ELSE {g} \cup chainOf(w, BitAnd(g + probeCount + 1, w.m.old.groupMask),
                          probeCount + 1)

\* C20: while the Map is growing, if ChainEvacuated is set for an old group
\* g then Evacuated is set for g and for every group on the probe sequence
\* of old from g up to and including the first group with an EMPTY byte, so
\* every key of old whose natural group is g is in a group that was moved.
ChainEvacuatedMeans ==
    (last.op \in {"Set", "Delete"} /\ m.old # NilTable) =>
        \A g \in 0 .. m.old.groupMask :
           isChainEvacuated(at(status(World), g)) =>
              /\ isEvacuated(at(status(World), g))
              /\ chainOf(World, g, 0) \cap unmovedGroups(World) = {}
              /\ \A pos \in storedPositions(World, m.old) :
                    BitAnd(hashFunc(m, at(slots(World, m.old), pos).Key),
                           m.old.groupMask) = g
                       => pos \div 16 \notin unmovedGroups(World)

\* the Map is growing, and ChainEvacuated is set for a group whose chain goes
\* through more than one group
ChainEvacuatedMeansWitness ==
    /\ last.op \in {"Set", "Delete"}
    /\ m.old # NilTable
    /\ \E g \in 0 .. m.old.groupMask :
          /\ isChainEvacuated(at(status(World), g))
          /\ Cardinality(chainOf(World, g, 0)) > 1

\* C21: while the Map is growing sweepCursor is between 0 and the number of
\* groups of old, ChainEvacuated is set for every old group below
\* sweepCursor, and old was never dropped with a group that was not
\* Evacuated.
SweepCursorMeans ==
    /\ obs.abandoned = 0
    /\ (last.op \in {"Set", "Delete"} /\ m.old # NilTable) =>
          /\ 0 <= m.sweepCursor
          /\ m.sweepCursor <= Len(control(World, m.old)) \div 16
          /\ \A g \in 0 .. m.sweepCursor - 1 :
                isChainEvacuated(at(status(World), g))

\* the Map is growing with the sweep past some groups but not all, and an
\* earlier growth has come to its end
SweepCursorMeansWitness ==
    /\ last.op \in {"Set", "Delete"}
    /\ m.old # NilTable
    /\ m.sweepCursor > 1
    /\ m.sweepCursor < Len(control(World, m.old)) \div 16
    /\ m.resizeGenerations > 1

\* C22: startResize is never called while the Map has an old table, neither
\* by a Set of the caller nor by the set calls of moveGroup: while the Map
\* is growing the load of current is below resizeThreshold.
NoNestedResize ==
    /\ obs.nested = 0
    /\ (last.op \in {"Set", "Delete"} /\ m.old # NilTable) =>
          m.elemCount + m.current.deleteCount < m.resizeThreshold

\* the Map is growing for the second time, after a Set of the caller and the
\* set calls of moveGroup went through the threshold test
NoNestedResizeWitness ==
    /\ last.op = "Set"
    /\ m.old # NilTable
    /\ m.resizeGenerations > 1
    /\ obs.moves > 0
    /\ obs.moves < obs.oldGroups

\* C23: a resize starts only in a Set of a key that is not in the Map, with
\* elemCount + current.deleteCount >= resizeThreshold and resizing not
\* disabled; that Set starts one resize, the key is then STORED once in the
\* new current and counted once. A Set of a key that is in the Map and a
\* Delete never start a resize.
ResizeStartsOnInsert ==
    [][m'.resizeGenerations # m.resizeGenerations =>
          /\ last'.op = "Set"
          /\ env'.nextKey <= env.nextKey + 1 =>
                /\ last'.key \notin DOMAIN mirror
                /\ find(World, m.current, last'.key, hashFunc(m, last'.key)).kv.nil
                /\ m.elemCount + m.current.deleteCount >= m.resizeThreshold
                /\ ~m.disableResizing
                /\ m'.resizeGenerations = m.resizeGenerations + 1
                /\ m'.elemCount = m.elemCount + 1
                /\ m'.old # NilTable => m'.old.mem = m.current.mem
                /\ Cardinality({pos \in storedPositions(WorldNext, m'.current) :
                                   at(slots(WorldNext, m'.current), pos).Key
                                       = last'.key}) = 1]_vars

\* a key was overwritten at full load, in a table that an earlier resize made,
\* and no resize started
ResizeStartsOnInsertWitness ==
    /\ last.op = "Set"
    /\ last.value >= FreshValue
    /\ m.old = NilTable
    /\ m.resizeGenerations > 0
    /\ m.elemCount + m.current.deleteCount >= m.resizeThreshold

\* C24: every Set and Delete called while the Map is growing moves an old
\* group that was not Evacuated or ends the growth, so a Map that is still
\* growing has had at most as many Sets and Deletes since startResize, the
\* Set that called it included, as old has groups: the call after that
\* finds the growth complete.
GrowthAdvances ==
    /\ obs.idle = 0
    /\ m.old # NilTable => obs.growOps <= Len(control(World, m.old)) \div 16

\* the Map is still growing after a second Set or Delete of the same growth
GrowthAdvancesWitness ==
    /\ m.old # NilTable
    /\ last.op \in {"Set", "Delete"}
    /\ obs.growOps = 2
    /\ obs.moves = obs.oldGroups

\* C25: after startResize made a table of fewer than 1000 groups old, every
\* Set and Delete moves at least two old groups or ends the growth, so the
\* growth is complete after at most T_old/32 + 1 Sets and Deletes, the Set
\* that called startResize included.
SweepTermination ==
    /\ m.old # NilTable =>
          /\ obs.moves >= 2 * obs.growOps
          /\ 32 * obs.growOps <= Len(control(World, m.old))
    /\ m.old = NilTable => 2 * (obs.growOps - 1) <= obs.oldGroups

\* a growth of a table of four groups has come to its end in the third Set
\* or Delete
SweepTerminationWitness ==
    /\ m.old = NilTable
    /\ last.op \in {"Set", "Delete"}
    /\ obs.oldGroups = 4
    /\ obs.moves = 4
    /\ obs.growOps = 3

\* C25 as worded: once T_old/16000 Sets or Deletes have been called after the
\* resize started, the growth is complete.
SweepTerminationAsWorded ==
    (m.old # NilTable /\ obs.growOps >= 2) =>
        (obs.growOps - 1) * 16000 < Len(control(World, m.old))

GrowFieldsAgree ==
    /\ (m.old = NilTable) <=> (m.growStatus = NilRef)
    /\ m.old = NilTable => m.sweepCursor = 0

\* a growth has come to its end after the sweep had gone past some groups,
\* and sweepCursor is 0 again
GrowFieldsAgreeWitness ==
    /\ pc = "idle"
    /\ last.op \in {"Set", "Delete"}
    /\ m.old = NilTable
    /\ m.growStatus = NilRef
    /\ m.sweepCursor = 0
    /\ obs.growOps > 1

\* C27 as worded: old is nil if and only if growStatus is nil if and only if
\* sweepCursor is 0.
GrowFieldsAgreeAsWorded ==
    /\ (m.old = NilTable) <=> (m.growStatus = NilRef)
    /\ (m.growStatus = NilRef) <=> (m.sweepCursor = 0)

\* C28: whenever the Map has an old table, current has exactly twice the
\* size of old and resizeThreshold is twice the threshold of a table of the
\* size of old; every step in which one resize starts doubles the size of
\* current and resizeThreshold.
CurrentTwiceOld ==
    /\ [](m.old # NilTable =>
             /\ Len(control(World, m.current)) = 2 * Len(control(World, m.old))
             /\ Len(slots(World, m.current)) = 2 * Len(slots(World, m.old))
             /\ m.current.groupMask = 2 * m.old.groupMask + 1
             /\ m.resizeThreshold = 2 * ((Len(control(World, m.old)) * 13) \div 16))
    /\ [][m'.resizeGenerations = m.resizeGenerations + 1 =>
             /\ Len(control(WorldNext, m'.current))
                   = 2 * Len(control(World, m.current))
             /\ m'.current.groupMask = 2 * m.current.groupMask + 1
             /\ m'.resizeThreshold = 2 * m.resizeThreshold]_vars

\* the Map is growing for the second time or later, part of old moved
CurrentTwiceOldWitness ==
    /\ m.old # NilTable
    /\ m.resizeGenerations > 1
    /\ Len(control(World, m.current)) = 128
    /\ obs.moves < obs.oldGroups

storedOnce(w, t) ==
    \A pos \in storedPositions(w, t) :
        LET k == at(slots(w, t), pos).Key
            f == find(w, t, k, hashFunc(w.m, k))
        IN ~f.hung /\ ~f.kv.nil /\ f.group * 16 + f.offset = pos

\* C30: in current, and in old while the Map is growing, no key is STORED
\* at more than one position, and every STORED key is found by find at its
\* position: no group before it on its probe sequence has an EMPTY byte.
StoredKeysOnce ==
    []((~hung /\ last.op \in {"Set", "Delete"}) =>
          /\ storedOnce(World, m.current)
          /\ m.old # NilTable => storedOnce(World, m.old))

\* a key that sits in a later group of its probe sequence was overwritten
\* after a Delete left a DELETED byte in its natural group
StoredKeysOnceWitness ==
    /\ last.op = "Set"
    /\ last.value >= FreshValue
    /\ m.current.deleteCount > 0
    /\ LET natural == BitAnd(hashFunc(m, last.key), m.current.groupMask) IN
       /\ natural \notin storedGroups(World, m.current, last.key)
       /\ \E offset \in 0 .. 15 :
             at(control(World, m.current), natural * 16 + offset) = deletedSentinel

\* the first group of table t, on the probe sequence that is at group g
\* after probeCount steps, with a control byte of the set bytes, and the
\* steps it took to come to it
RECURSIVE firstGroupWith(_, _, _, _, _)
firstGroupWith(w, t, g, probeCount, bytes) ==
    IF \/ \E offset \in 0 .. 15 : at(control(w, t), g * 16 + offset) \in bytes
       \/ probeCount > 2 * (t.groupMask + 1)
    THEN [group |-> g, probeCount |-> probeCount]
    ELSE firstGroupWith(w, t, BitAnd(g + probeCount + 1, t.groupMask),
                        probeCount + 1, bytes)

\* the position the insertion of key k in current is to write: the lowest
\* EMPTY position of the group where the probe ends, or, after a probe past
\* the natural group in a table with DELETED bytes, the lowest EMPTY or
\* DELETED position of the first group that has one
insertPosition(w, k) ==
    LET cur == w.m.current
        natural == BitAnd(hashFunc(w.m, k), cur.groupMask)
        e == firstGroupWith(w, cur, natural, 0, {emptySentinel})
        d == firstGroupWith(w, cur, natural, 0, {emptySentinel, deletedSentinel})
        plain == cur.deleteCount = 0 \/ e.probeCount = 0
        group == IF plain THEN e.group ELSE d.group
        bytes == IF plain THEN {emptySentinel} ELSE {emptySentinel, deletedSentinel}
        offset == CHOOSE o \in 0 .. 15 :
                     /\ at(control(w, cur), group * 16 + o) \in bytes
                     /\ \A o2 \in 0 .. o - 1 :
                           at(control(w, cur), group * 16 + o2) \notin bytes
    IN group * 16 + offset

\* C31: a set that inserts a key current does not hold, without a resize,
\* writes the key to the lowest EMPTY position of the group where its probe
\* ended if current.deleteCount is 0 or the probe ended in the natural group
\* of the key, and else to the lowest EMPTY or DELETED position of the first
\* group on the probe sequence that has one; nothing else of the table
\* changes, and deleteCount goes down by one exactly when the byte written
\* over was DELETED.
InsertPosition ==
    []((~hung /\ last.op \in {"Set", "Delete"}
              /\ (m.elemCount + m.current.deleteCount < m.resizeThreshold
                     \/ m.disableResizing)) =>
          \A k \in {env.nextKey, AbsentKey} \cup HotKeys :
             find(World, m.current, k, hashFunc(m, k)).kv.nil =>
                LET w == set(World, k, k, 1, FALSE)
                    cur == m.current
                    pos == insertPosition(World, k)
                    was == at(control(World, cur), pos)
                IN /\ ~w.hung
                   /\ control(w, cur) =
                         [control(World, cur) EXCEPT
                             ![pos + 1] = h2(cur, hashFunc(m, k))]
                   /\ slots(w, cur) = [slots(World, cur) EXCEPT ![pos + 1] = KV(k, k)]
                   /\ w.m.current.deleteCount =
                         IF was = deletedSentinel THEN cur.deleteCount - 1
                         ELSE cur.deleteCount
                   /\ w.m.elemCount = m.elemCount + 1)

\* a Set has inserted a key into the position a Delete had left DELETED in
\* the natural group of the key, its probe having ended in a later group
InsertPositionWitness ==
    /\ last.op = "Set"
    /\ ~hung
    /\ last.key \notin HotKeys
    /\ m.current.deleteCount = 0
    /\ HotKeys \cap DOMAIN mirror # HotKeys
    /\ LET natural == BitAnd(hashFunc(m, last.key), m.current.groupMask) IN
       /\ natural \in storedGroups(World, m.current, last.key)
       /\ \A offset \in 0 .. 15 :
             at(control(World, m.current), natural * 16 + offset) # emptySentinel
       /\ \E g \in 0 .. m.current.groupMask :
             /\ g # natural
             /\ \E offset \in 0 .. 15 :
                   at(control(World, m.current), g * 16 + offset) = emptySentinel
             /\ \E offset \in 0 .. 15 :
                   isStored(at(control(World, m.current), g * 16 + offset))
    /\ m.old = NilTable
    /\ m.elemCount < m.resizeThreshold

\* C32: Delete of a key that current holds writes EMPTY to the control byte
\* of the key if the group of the key has an EMPTY byte, and else writes
\* DELETED and adds one to current.deleteCount; it zeroes the slot, takes
\* one from elemCount and changes nothing else of the table.
DeleteSentinel ==
    []((~hung /\ last.op \in {"Set", "Delete"}) =>
          \A pos \in storedPositions(World, m.current) :
             LET cur == m.current
                 k == at(slots(World, cur), pos).Key
                 w == deleteFound(World, k, hashFunc(m, k))
                 hasEmpty == \E offset \in 0 .. 15 :
                                at(control(World, cur), (pos \div 16) * 16 + offset)
                                    = emptySentinel
             IN /\ ~w.hung
                /\ control(w, cur) =
                      [control(World, cur) EXCEPT
                          ![pos + 1] = IF hasEmpty THEN emptySentinel
                                       ELSE deletedSentinel]
                /\ slots(w, cur) = [slots(World, cur) EXCEPT ![pos + 1] = zeroKV]
                /\ w.m.current.deleteCount =
                      IF hasEmpty THEN cur.deleteCount ELSE cur.deleteCount + 1
                /\ w.m.elemCount = m.elemCount - 1)

\* a Delete has left DELETED in a group without EMPTY bytes, while other
\* groups of current have EMPTY bytes
DeleteSentinelWitness ==
    /\ last.op = "Delete"
    /\ ~hung
    /\ last.key \notin DOMAIN mirror
    /\ m.current.deleteCount = 1
    /\ \E pos \in 0 .. Len(control(World, m.current)) - 1 :
          /\ at(control(World, m.current), pos) = deletedSentinel
          /\ at(slots(World, m.current), pos) = zeroKV
    /\ m.elemCount = Cardinality(DOMAIN mirror)

\* C33: current.deleteCount is the number of DELETED control bytes of
\* current, and old.deleteCount that of old while the Map has an old table.
DeleteCountExact ==
    [](~hung =>
          /\ m.current.deleteCount =
                Cardinality({pos \in 0 .. Len(control(World, m.current)) - 1 :
                                at(control(World, m.current), pos) = deletedSentinel})
          /\ m.old # NilTable =>
                m.old.deleteCount =
                   Cardinality({pos \in 0 .. Len(control(World, m.old)) - 1 :
                                   at(control(World, m.old), pos) = deletedSentinel}))

\* a resize has started on a table with a DELETED byte: the new current has
\* none, and keys of old have been written to it
DeleteCountExactWitness ==
    /\ last.op = "Set"
    /\ ~hung
    /\ m.old # NilTable
    /\ m.old.deleteCount = 1
    /\ m.current.deleteCount = 0
    /\ obs.moves > 0

\* C34: with resizing enabled, elemCount + current.deleteCount is at most
\* resizeThreshold, resizeThreshold is 13/16 of the size of current, and at
\* least 3/16 of the control bytes of current are EMPTY.
LoadBelowThreshold ==
    []((~hung /\ ~m.disableResizing) =>
          LET T == Len(control(World, m.current)) IN
          /\ m.elemCount + m.current.deleteCount <= m.resizeThreshold
          /\ m.resizeThreshold = (T * 13) \div 16
          /\ 16 * Cardinality({pos \in 0 .. T - 1 :
                                  at(control(World, m.current), pos) = emptySentinel})
                >= 3 * T)

\* the load of current is at the threshold, a DELETED byte counted in, and
\* exactly 3/16 of the control bytes are EMPTY
LoadBelowThresholdWitness ==
    /\ ~hung
    /\ ~m.disableResizing
    /\ m.old = NilTable
    /\ m.current.deleteCount > 0
    /\ m.elemCount + m.current.deleteCount = m.resizeThreshold
    /\ 16 * Cardinality({pos \in 0 .. Len(control(World, m.current)) - 1 :
                            at(control(World, m.current), pos) = emptySentinel})
          = 3 * Len(control(World, m.current))


\* C35: for a number of groups n that is a power of two and any start group
\* g0, the groups visited by probeCount++; group = (group + probeCount) &
\* groupMask are g_i = (g0 + i(i+1)/2) mod n, no group is visited twice in
\* probes 0 .. n-1, and after probe n-1 every one of the n groups has been
\* visited
ProbeVisitsEachGroupOnce ==
    pc = "probing" =>
        LET n == env.groupMask + 1
            i == env.probeCount
            groups == {env.visited[j] : j \in 1 .. Len(env.visited)}
        IN /\ Len(env.visited) = i + 1
           /\ i < n
           /\ env.group = (env.start + (i * (i + 1)) \div 2) % n
           /\ env.visited[i + 1] = env.group
           /\ Cardinality(groups) = i + 1
           /\ (i = n - 1 => groups = 0 .. n - 1)

\* the walk over 8 groups from group 3 has made its last probe, and it did
\* not visit the groups in the order of their numbers
ProbeVisitsEachGroupOnceWitness ==
    /\ pc = "probing"
    /\ env.groupMask = 7
    /\ env.start = 3
    /\ env.probeCount = 7
    /\ env.visited = <<3, 4, 6, 1, 5, 2, 0, 7>>

\* C36: with resizing disabled the table keeps its size T; Len() is the
\* number of keys Set and every one of them is found with its value; while
\* the loop fills, re-setting a key that is in changes nothing; with T-1
\* keys in, Len() is T-1 and the missing key is reported absent; after the
\* T-th key Len() is T, that key is retrievable and no control byte of
\* current is EMPTY
ForceFill ==
    /\ []((pc \in {"fill", "full"}) =>
            LET T == calcTableSize(env.capacityHint)
                ctrl == control(World, m.current)
            IN /\ ~hung
               /\ m.old = NilTable
               /\ Len(ctrl) = T
               /\ MapLen(World) = Cardinality(DOMAIN mirror)
               /\ MapLen(World) <= T
               /\ \A k \in DOMAIN mirror :
                      Get(World, k) = [v |-> mirror[k], ok |-> TRUE, hung |-> FALSE]
               /\ (pc = "fill" /\ env.nextKey = FillBase + T - 1) =>
                      /\ MapLen(World) = T - 1
                      /\ Get(World, missingKey)
                            = [v |-> zeroValue, ok |-> FALSE, hung |-> FALSE]
               /\ pc = "full" =>
                      /\ MapLen(World) = T
                      /\ Get(World, env.elem)
                            = [v |-> env.elem + 1, ok |-> TRUE, hung |-> FALSE]
                      /\ \A i \in 1 .. T : ctrl[i] # emptySentinel)
    /\ [][(pc = "fill" /\ last'.op = "Set" /\ last'.key \in DOMAIN mirror)
              => WorldNext = World]_vars

\* a table of 64 positions in which every key hashes to group 0 is full,
\* and the last key went into the last group of the walk 0, 1, 3, 2
ForceFillWitness ==
    /\ pc = "full"
    /\ env.config.hashFunc = "zeroHash"
    /\ Len(control(World, m.current)) = 64
    /\ MapLen(World) = 64
    /\ m.disableResizing
    /\ \E i \in 33 .. 48 : slots(World, m.current)[i].Key = env.elem

\* the entry at position pos of table t sits in a group that is not the
\* natural group of its key
displacedAt(w, t, pos) ==
    pos \div 16 # BitAnd(hashFunc(w.m, at(slots(w, t), pos).Key), t.groupMask)

\* C37: while a resize is in progress, for every STORED entry of current in
\* a group g that is not the natural group of its key,
\* growStatus[g & old.groupMask] has CurHasDisplaced set; so a Range whose
\* snapshot is of that growth reconstructs the hash only for entries that
\* sit in their natural group
DisplacedTracked ==
    []((~hung /\ m.old # NilTable) =>
          /\ \A pos \in storedPositions(World, m.current) :
                 displacedAt(World, m.current, pos) =>
                     curHasDisplaced(at(status(World),
                                        BitAnd(pos \div 16, m.old.groupMask)))
          /\ (pc = "callback" /\ it.old # NilTable
                  /\ it.growStatus = m.growStatus) =>
                 \A pos \in storedPositions(World, it.cur) :
                     ~curHasDisplaced(at(statuses[it.growStatus],
                                         BitAnd(pos \div 16, it.old.groupMask)))
                         => ~displacedAt(World, it.cur, pos))

\* a Range that began during the growth is in its callback, and current
\* holds an entry outside its natural group, in a group that holds an entry
\* in its natural group too
DisplacedTrackedWitness ==
    /\ ~hung
    /\ m.old # NilTable
    /\ pc = "callback"
    /\ it.old # NilTable
    /\ it.growStatus = m.growStatus
    /\ \E pos \in storedPositions(World, m.current) :
          /\ displacedAt(World, m.current, pos)
          /\ curHasDisplaced(at(status(World), BitAnd(pos \div 16, m.old.groupMask)))
    /\ \E pos \in storedPositions(World, m.current) :
          ~displacedAt(World, m.current, pos)

\* C38: for a table of T positions, T a power of two from 16 on, and a
\* hash h, reconstructHash(h2(h), h & groupMask) is h & (2^(h2Shift+7) - 1),
\* the h2Shift + 7 low bits of h: the natural group and the 7 bits above it
ReconstructHashExact ==
    (pc = "returned" /\ last.op = "reconstructHash") =>
        LET table == newFixedTable(env.capacity, 0) IN
        /\ 2 ^ table.h2Shift = env.capacity \div 16
        /\ env.group = env.hash % 2 ^ table.h2Shift
        /\ env.h2 = (env.hash \div 2 ^ table.h2Shift) % 128
        /\ last.value = env.hash % 2 ^ (table.h2Shift + 7)
        /\ last.value = BitAnd(env.hash, 2 ^ (table.h2Shift + 7) - 1)

\* the hash of a table of 64 positions has bits above those of the group
\* and of h2, which are not reconstructed, and its group and h2 are not 0
ReconstructHashExactWitness ==
    /\ pc = "returned"
    /\ last.op = "reconstructHash"
    /\ env.capacity = 64
    /\ last.value # env.hash
    /\ env.group # 0
    /\ env.h2 # 0
    /\ env.h2 # 127

\* the fixedTables of the Map: current, and old while the Map grows
mapTables == {m.current} \cup (IF m.old # NilTable THEN {m.old} ELSE {})

\* h & ((1 << (h2Shift + 7)) - 1) for the hash h of the key at pos
usefulHash(t, pos) ==
    hashFunc(m, at(slots(World, t), pos).Key) % 2 ^ (t.h2Shift + 7)

\* C39, as worded: for every STORED entry of a table of the Map, with
\* control byte c, in group g, reconstructHash(c, g) is the h2Shift + 7 low
\* bits of the hash of its key
StoredHashByGroup ==
    ~hung =>
        \A t \in mapTables :
            \A pos \in storedPositions(World, t) :
                reconstructHash(t, at(control(World, t), pos), pos \div 16)
                    = usefulHash(t, pos)

\* C39: for every STORED entry of a table of the Map, with control byte c,
\* reconstructHash(c, n) is the h2Shift + 7 low bits of the hash h of its
\* key for the natural group n = h & groupMask of the key, and therefore
\* for the group g the entry is located in exactly when g is n
StoredHashByNaturalGroup ==
    [](~hung =>
          \A t \in mapTables :
              \A pos \in storedPositions(World, t) :
                  LET c == at(control(World, t), pos)
                      h == hashFunc(m, at(slots(World, t), pos).Key)
                      g == pos \div 16
                  IN /\ reconstructHash(t, c, BitAnd(h, t.groupMask))
                           = usefulHash(t, pos)
                     /\ reconstructHash(t, c, g) = usefulHash(t, pos)
                           <=> g = BitAnd(h, t.groupMask))

\* no growth is going on, and current holds an entry outside the natural
\* group of its key, whose hash the group it is in does not give back
StoredHashByNaturalGroupWitness ==
    /\ ~hung
    /\ m.old = NilTable
    /\ \E pos \in storedPositions(World, m.current) :
          /\ displacedAt(World, m.current, pos)
          /\ reconstructHash(m.current, at(control(World, m.current), pos),
                              pos \div 16) # usefulHash(m.current, pos)
    /\ \E pos \in storedPositions(World, m.current) :
          /\ ~displacedAt(World, m.current, pos)
          /\ reconstructHash(m.current, at(control(World, m.current), pos),
                              pos \div 16) = usefulHash(m.current, pos)

\* the groups the two outer loops of Range go through from the loop position
\* of iter on, each with the 16 positions its inner loop examines, in order
RECURSIVE groupsFrom(_, _)
groupsFrom(w, iter) ==
    IF outerLoop(w, iter)
    THEN <<[phase |-> iter.phase,
            row |-> [n \in 0 .. 15 |-> iter.group * 16 + atOffset(iter, n).offset]]>>
         \o groupsFrom(w, nextGroup(iter, outerMask(w, iter)))
    ELSE IF iter.phase = "old" THEN groupsFrom(w, enterCur(w, iter))
    ELSE <<>>

\* the loops of the running Range from their beginning: its snapshots and
\* its random word
rangeWalk ==
    groupsFrom(World, rangeBegin([World EXCEPT !.m.old = it.old,
                                               !.m.growStatus = it.growStatus,
                                               !.m.current = it.cur], it.r))

\* the number of positions the running Range has examined before the one
\* it is at
examinedBefore(iter) ==
    (IF iter.phase = "cur" /\ iter.old # NilTable
     THEN Len(control(World, iter.old)) ELSE 0) + iter.i * 16 + iter.j

\* C40: for every random word r, the loops of a Range whose callback
\* returns true examine each position of the snapshot of old exactly once,
\* from group r & groupMask and offset (r >> 61) & 0xF on, wrapping around,
\* and then each position of the snapshot of current exactly once; every
\* invocation of the callback is at one more position of that walk, so
\* there are at most old.T + cur.T of them and Range returns, whatever the
\* callback writes
RangeExaminesOnce ==
    /\ []((~hung /\ pc \in {"callback", "returned"}) =>
            LET walk == rangeWalk
                oldT == IF it.old # NilTable THEN Len(control(World, it.old)) ELSE 0
                curT == Len(control(World, it.cur))
                oldRows == {x \in 1 .. Len(walk) : walk[x].phase = "old"}
                curRows == {x \in 1 .. Len(walk) : walk[x].phase = "cur"}
                mask == IF it.old # NilTable THEN it.old.groupMask
                        ELSE curT \div 16 - 1
            IN /\ 16 * Cardinality(oldRows) = oldT
               /\ 16 * Cardinality(curRows) = curT
               /\ \A x \in oldRows, y \in curRows : x < y
               /\ {walk[x].row[n] : x \in oldRows, n \in 0 .. 15} = 0 .. oldT - 1
               /\ {walk[x].row[n] : x \in curRows, n \in 0 .. 15} = 0 .. curT - 1
               /\ walk[1].row[0] = BitAnd(it.r.lo, mask) * 16 + BitAnd(it.r.hi, 15)
               /\ pc = "callback" =>
                      LET x == examinedBefore(it) \div 16 + 1 IN
                      /\ it.j \in 0 .. 15
                      /\ x \in 1 .. Len(walk)
                      /\ walk[x].phase = it.phase
                      /\ walk[x].row[it.j] = it.group * 16 + it.offset
                      /\ cb.index <= examinedBefore(it)
                      /\ Len(track.log) <= examinedBefore(it) + 1
               /\ (pc = "returned" /\ ~it.stopped) =>
                      /\ it.phase = "done"
                      /\ it.i = curT \div 16
                      /\ Len(track.log) <= oldT + curT)
    /\ [][(pc = "callback" /\ pc' = "callback" /\ it' # it) =>
              /\ it'.old = it.old
              /\ it'.cur = it.cur
              /\ it'.r = it.r
              /\ examinedBefore(it') > examinedBefore(it)]_vars

\* a Range with a random word that is not 0 began during a growth, its
\* callback wrote to the Map, which has grown again meanwhile, and the
\* Range has run to its end
RangeExaminesOnceWitness ==
    /\ ~hung
    /\ pc = "returned"
    /\ ~it.stopped
    /\ it.r.lo # 0
    /\ it.r.hi # 0
    /\ it.old # NilTable
    /\ track.mutated
    /\ m.current # it.cur

=============================================================================
